---------------------------- MODULE Spec2Model ----------------------------
(***************************************************************************)
(* Model of the supplier synchronisation pipeline of alfera-backend:       *)
(* SyncService (sync/services/sync_service.py), DataMapper                 *)
(* (sync/services/data_mapper.py), the supplier clients and the            *)
(* WooCommerce client, over the persisted tables of products/models.py,    *)
(* suppliers/models.py and sync/models.py.                                 *)
(*                                                                         *)
(* Strings that the code builds (SKUs, variant references) are sequences   *)
(* of atoms: a token of the feed, the separator "_", or a number printed   *)
(* in decimal.  Two strings are equal iff their atom sequences are equal.  *)
(***************************************************************************)
EXTENDS Integers, Sequences, FiniteSets, TLC

VARIABLES
    supplierName,    \* Supplier.name, per supplier code
    supplierActive,  \* Supplier.is_active
    lastSync,        \* Supplier.last_sync (0 = NULL)
    products,        \* rows of Product
    variants,        \* rows of ProductVariant
    categories,      \* rows of Category
    stocks,          \* rows of Stock
    prices,          \* rows of Price, in creation order
    syncLogs,        \* rows of SyncLog, in creation order
    syncErrors,      \* rows of SyncError, in creation order (append-only)
    wooProducts,     \* products held by the remote WooCommerce shop
    pushState,       \* _sync_to_woocommerce: offset of the next batch, synced_count
    clock,           \* timezone.now(), a logical time
    pc,              \* position of the single synchronous worker
    caller,          \* "all" (sync_all_suppliers) or "script" (a direct sync_supplier call)
    queue,           \* suppliers sync_all_suppliers still has to visit
    cur,             \* supplier of the running sync_supplier call
    syncWoo,         \* the sync_to_woocommerce argument
    rawProducts,     \* records of client.get_products() not yet processed
    rawStock,        \* records of client.get_stock() not yet processed
    rawPrices,       \* records of client.get_prices() not yet processed
    fetched,         \* what the three fetches of the running call did
    stats,           \* SyncService.stats
    results,         \* the results dict of sync_all_suppliers, keyed by supplier name
    attempted,       \* suppliers whose sync_supplier call has ended in this invocation
    lastPush,        \* what the last push of a batch was given and what it answered
    lastRecord,      \* the record the last per-record step was given
    client,          \* class of the supplier client whose fetches are followed
    feedFile,        \* what the feed holds now (XML elements, CSV rows, API items)
    cacheEntry,      \* django cache: the entry under the client's products key
    lastFetch,       \* the last get_products call: its arguments and its outcome
    pager,           \* the running page loop of the WooCommerce client
    workers          \* the parallel workers: one sync of one supplier each

vars == << supplierName, supplierActive, lastSync, products, variants, categories,
           stocks, prices, syncLogs, syncErrors, wooProducts, pushState, clock, pc,
           caller, queue, cur, syncWoo, rawProducts, rawStock, rawPrices, fetched,
           stats, results, attempted, lastPush, lastRecord,
           client, feedFile, cacheEntry, lastFetch, pager, workers >>

-----------------------------------------------------------------------------
(* Bounds of the model *)

MaxRuns == 2          \* sync_supplier calls (SyncLog rows) in one behaviour
MaxFeed == 2          \* records in one fetched feed
MaxScale == 1         \* entries of a Midocean price record's 'scale' list
MaxElements == 3      \* elements, rows or items a supplier's feed holds
MaxLimit == 2         \* the largest limit a fetch is given
MaxPages == 6         \* page numbers from here on are told apart by their parity only
MaxPageItems == 2     \* items on one page of the shop's answer
MaxCounted == 10      \* collected or deleted items from here on are told apart no more
MaxDrafts == 201       \* drafts the shop holds when clear_draft_products is called
MaxTiers == 2         \* price columns (minQty.i, maxQty.i, price.i) a BIC row fills

(* Program constants *)

BatchSize == 50       \* batch_size of _sync_to_woocommerce
UnboundedQty == 999999

NoId == -1            \* Python's None for an integer field
NoStr == <<>>         \* the empty string

-----------------------------------------------------------------------------
(* Suppliers.  The supplier is identified by its unique code; the type     *)
(* decides the client (SupplierClientFactory.create_client) and the        *)
(* mapping (DataMapper.map_product_data).                                  *)

Suppliers == {"MKTO", "MAK2", "MID", "BIC"}

SupplierType(s) ==
    CASE s = "MKTO" -> "MAKITO"
      [] s = "MAK2" -> "MAKITO"
      [] s = "MID"  -> "MIDOCEAN"
      [] s = "BIC"  -> "BIC"

\* SupplierClientFactory.create_client: the client class chosen for a supplier
ClientClass(s) ==
    CASE SupplierType(s) = "MIDOCEAN" -> "MidoceanClient"
      [] SupplierType(s) = "MAKITO" /\ s = "MKTO" -> "MKTOParser"
      [] SupplierType(s) = "MAKITO" /\ s # "MKTO" -> "MakitoParser"
      [] SupplierType(s) = "BIC" -> "BICParser"

\* Supplier.name is free text and not unique: the two configurations of the
\* model give every supplier a name of its own, or give both Makito suppliers
\* the name "Makito"
DistinctNames ==
    [s \in Suppliers |->
        CASE s = "MKTO" -> "MKTO" [] s = "MAK2" -> "Makito"
          [] s = "MID" -> "Midocean" [] s = "BIC" -> "BIC"]

SharedNames == [DistinctNames EXCEPT !["MKTO"] = "Makito"]

-----------------------------------------------------------------------------
(* Strings as atom sequences *)

Sep == "_"

\* str.replace('__', '_'): non-overlapping, left to right
RECURSIVE ReplaceDoubleSep(_)
ReplaceDoubleSep(s) ==
    IF Len(s) < 2 THEN s
    ELSE IF s[1] = Sep /\ s[2] = Sep
         THEN <<Sep>> \o ReplaceDoubleSep(SubSeq(s, 3, Len(s)))
         ELSE <<s[1]>> \o ReplaceDoubleSep(Tail(s))

\* str(product.id)
IdStr(n) == <<ToString(n)>>

\* dict.get(key, default)
Get(d, key, default) == IF key \in DOMAIN d THEN d[key] ELSE default

\* the elements of a sequence
Range(f) == {f[i] : i \in DOMAIN f}

-----------------------------------------------------------------------------
(* DataMapper.map_product_data: raw record of a client -> unified record.  *)
(* A raw record is the dict the client of that supplier returns: Midocean  *)
(* gives the API's JSON (master_code, variants[].sku), MakitoParser gives  *)
(* supplier_ref and variants[].refct/colour, MKTOParser gives supplier_ref *)
(* and variants already renamed to sku/color, BICParser gives the unified  *)
(* shape.  A record with invalid = TRUE stands for one that the mapping or *)
(* Product.update_or_create rejects with an exception (a variants entry    *)
(* that is no dict, a value longer than its column).                       *)

\* DataMapper._map_midocean_product, the variants loop
MapMidoceanVariant(v) ==
    [supplier_variant_ref |-> Get(v, "sku", NoStr),
     sku   |-> Get(v, "sku", NoStr),
     color |-> Get(v, "color_description", NoStr),
     size  |-> Get(v, "size", NoStr)]

\* DataMapper._map_makito_product, the variants loop
MapMakitoVariant(v) ==
    [supplier_variant_ref |-> Get(v, "refct", NoStr),
     sku   |-> Get(v, "refct", NoStr),
     color |-> Get(v, "colour", NoStr),
     size  |-> Get(v, "size", NoStr)]

MapMidoceanVariants(vs) == [i \in DOMAIN vs |-> MapMidoceanVariant(vs[i])]

MapMakitoVariants(vs) == [i \in DOMAIN vs |-> MapMakitoVariant(vs[i])]

\* DataMapper._map_midocean_product: the category levels present, in order
MidoceanCategoryPath(raw) ==
    SelectSeq(<<Get(raw, "category_level1", ""), Get(raw, "category_level2", ""),
                Get(raw, "category_level3", "")>>,
              LAMBDA c : c # "")

\* DataMapper.map_product_data (the record it returns when it does not raise)
MapProductData(raw, s) ==
    CASE SupplierType(s) = "MIDOCEAN" ->
           [supplier |-> s,
            supplier_ref |-> Get(raw, "master_code", NoStr),
            sku |-> <<"MID", Sep>> \o Get(raw, "master_code", NoStr),
            variants |-> MapMidoceanVariants(Get(raw, "variants", <<>>)),
            categories |-> <<>>,
            category_path |-> MidoceanCategoryPath(raw),
            prices |-> <<>>]
      [] SupplierType(s) = "MAKITO" ->
           [supplier |-> s,
            supplier_ref |-> Get(raw, "supplier_ref", NoStr),
            sku |-> <<"MAK", Sep>> \o Get(raw, "supplier_ref", NoStr),
            variants |-> MapMakitoVariants(Get(raw, "variants", <<>>)),
            categories |-> Get(raw, "categories", <<>>),
            category_path |-> <<>>,
            prices |-> <<>>]
      [] SupplierType(s) = "BIC" ->
           [supplier |-> s,
            supplier_ref |-> Get(raw, "supplier_ref", NoStr),
            sku |-> Get(raw, "sku", NoStr),
            variants |-> Get(raw, "variants", <<>>),
            categories |-> Get(raw, "categories", <<>>),
            category_path |-> <<>>,
            prices |-> Get(raw, "prices", <<>>)]

\* map_product_data or update_or_create raises on this record
Rejected(raw) == Get(raw, "invalid", FALSE)

-----------------------------------------------------------------------------
(* Product rows *)

ProductOf(ps, s, ref) == {p \in ps : p.supplier = s /\ p.supplier_ref = ref}

NextProductId(ps) == Cardinality(ps) + 1

\* Product.sku is unique: the save of (s, ref) with this sku hits another row
ProductSkuTaken(ps, s, ref, sku) ==
    \E p \in ps : p.sku = sku /\ ~(p.supplier = s /\ p.supplier_ref = ref)

\* a product upsert that inserts a row whether or not the key has one
InsertProductAlways(ps, mapped) ==
    LET n == [id |-> NextProductId(ps),
              supplier |-> mapped.supplier,
              supplier_ref |-> mapped.supplier_ref,
              sku |-> mapped.sku,
              category |-> "",
              base_price |-> 0,
              currency |-> "EUR",
              woocommerce_id |-> NoId]
    IN  [products |-> ps \cup {n}, product |-> n, created |-> TRUE]

\* SyncService._create_or_update_product: Product.objects.update_or_create on
\* (supplier, supplier_ref).  Returns the table, the row and the created flag.
CreateOrUpdateProduct(ps, mapped) ==
    LET old == ProductOf(ps, mapped.supplier, mapped.supplier_ref) IN
    IF old # {}
    THEN LET o == CHOOSE p \in old : TRUE
             n == [o EXCEPT !.sku = mapped.sku]
         IN  [products |-> (ps \ {o}) \cup {n}, product |-> n, created |-> FALSE]
    ELSE LET n == [id |-> NextProductId(ps),
                   supplier |-> mapped.supplier,
                   supplier_ref |-> mapped.supplier_ref,
                   sku |-> mapped.sku,
                   category |-> "",
                   base_price |-> 0,
                   currency |-> "EUR",
                   woocommerce_id |-> NoId]
         IN  [products |-> ps \cup {n}, product |-> n, created |-> TRUE]

-----------------------------------------------------------------------------
(* SyncService._sync_product_variants *)

\* str.replace('/', '').replace(' ', '_') on an atom sequence
StripSlashSpace(s) ==
    LET noSlash == SelectSeq(s, LAMBDA a : a # "/")
    IN  [i \in DOMAIN noSlash |-> IF noSlash[i] = " " THEN Sep ELSE noSlash[i]]

\* the SKU generated for a variant that comes without one
GeneratedSku(product, v) ==
    ReplaceDoubleSep(StripSlashSpace(
        <<"MAK", Sep>> \o product.supplier_ref \o <<Sep>>
        \o Get(v, "color", <<"NOCOLOR">>) \o <<Sep>> \o Get(v, "size", <<"NOSIZE">>)))

\* the supplier_variant_ref generated for a variant that comes without one
GeneratedVariantRef(product, v) ==
    product.supplier_ref \o <<Sep>> \o Get(v, "color", NoStr)
    \o <<Sep>> \o Get(v, "size", NoStr)

\* ProductVariant.objects.filter(sku=sku).exclude(product=product).first()
SkuOfOtherProduct(vs, sku, product) ==
    \E x \in vs : x.sku = sku /\ x.product # product.id

\* the suffix appended to a SKU that another product's variant holds
SuffixedSku(sku, product) == sku \o <<Sep>> \o IdStr(product.id)

\* the SKU _sync_product_variants computes before it writes
ResolvedSku(vs, product, v) ==
    LET sku0 == IF Get(v, "sku", NoStr) = NoStr
                THEN GeneratedSku(product, v) ELSE Get(v, "sku", NoStr)
    IN  IF SkuOfOtherProduct(vs, sku0, product)
        THEN SuffixedSku(sku0, product) ELSE sku0

ResolvedVariantRef(product, v) ==
    IF Get(v, "supplier_variant_ref", NoStr) = NoStr
    THEN GeneratedVariantRef(product, v)
    ELSE Get(v, "supplier_variant_ref", NoStr)

\* ProductVariant.sku is unique: writing sku on (product, ref) hits another row
VariantSkuTaken(vs, product, ref, sku) ==
    \E x \in vs : x.sku = sku
                  /\ ~(x.product = product.id /\ x.supplier_variant_ref = ref)

\* ProductVariant.objects.update_or_create(product, supplier_variant_ref, defaults)
UpsertVariant(vs, product, ref, sku, v) ==
    LET row == [product |-> product.id, supplier_variant_ref |-> ref, sku |-> sku,
                color |-> Get(v, "color", NoStr), size |-> Get(v, "size", NoStr)]
        old == {x \in vs : x.product = product.id /\ x.supplier_variant_ref = ref}
    IN  (vs \ old) \cup {row}

VariantError(product, v) ==
    [supplier |-> product.supplier, error_type |-> "VALIDATION_ERROR",
     object_type |-> "variant", object_id |-> Get(v, "sku", <<"unknown">>),
     context_data |-> v]

\* the update_or_create of the loop body with the SKU the body has computed;
\* its IntegrityError is caught by the body's handler and recorded
WriteVariant(acc, product, v, sku) ==
    LET ref == ResolvedVariantRef(product, v)
        isNew == ~\E x \in acc.variants :
                    x.product = product.id /\ x.supplier_variant_ref = ref
    IN  IF VariantSkuTaken(acc.variants, product, ref, sku)
        THEN [acc EXCEPT !.errors = Append(@, VariantError(product, v))]
        ELSE [acc EXCEPT !.variants = UpsertVariant(@, product, ref, sku, v),
                         !.created = @ + (IF isNew THEN 1 ELSE 0)]

\* one pass of the loop body of _sync_product_variants on acc = [variants, errors, created]
SyncOneVariant(acc, product, v) ==
    WriteVariant(acc, product, v, ResolvedSku(acc.variants, product, v))

RECURSIVE SyncProductVariants(_, _, _)
SyncProductVariants(acc, product, vdata) ==
    IF vdata = <<>> THEN acc
    ELSE SyncProductVariants(SyncOneVariant(acc, product, Head(vdata)),
                             product, Tail(vdata))

-----------------------------------------------------------------------------
(* Categories.  A Category row is [name, slug, parent]; slug is unique and *)
(* identifies the row (Product.category holds it, "" = NULL).              *)

\* django.utils.text.slugify on the category names of the model
Slugify(name) ==
    CASE name = "Ufficio e Scrittura"   -> "ufficio-e-scrittura"
      [] name = "Quaderni"              -> "quaderni"
      [] name = "Technology"            -> "technology"
      [] name = "BIC"                   -> "bic"
      [] name = "Bic"                   -> "bic"
      [] name = "Penne"                 -> "penne"
      [] name = "PENNE"                 -> "penne"
      [] name = "Prodotti Promozionali" -> "prodotti-promozionali"
      [] name = "Prodotti BIC"          -> "prodotti-bic"
      [] name = "Prodotti Midocean"     -> "prodotti-midocean"
      [] name = "Prodotti Makito"       -> "prodotti-makito"
      [] name = "Prodotti MKTO"         -> "prodotti-mkto"
      [] name = "Prodotti-Midocean"     -> "prodotti-midocean"

\* str.lower() on the category names of the model
Lower(name) ==
    CASE name = "Ufficio e Scrittura"   -> "ufficio e scrittura"
      [] name = "Quaderni"              -> "quaderni"
      [] name = "Technology"            -> "technology"
      [] name = "BIC"                   -> "bic"
      [] name = "Bic"                   -> "bic"
      [] name = "Penne"                 -> "penne"
      [] name = "PENNE"                 -> "penne"
      [] name = "Prodotti Promozionali" -> "prodotti promozionali"
      [] name = "Prodotti BIC"          -> "prodotti bic"
      [] name = "Prodotti Midocean"     -> "prodotti midocean"
      [] name = "Prodotti Makito"       -> "prodotti makito"
      [] name = "Prodotti MKTO"         -> "prodotti mkto"
      [] name = "Prodotti-Midocean"     -> "prodotti-midocean"

\* DataMapper._map_category_name with DataMapper.category_mapping
MapCategoryName(name, type) ==
    CASE type = "MIDOCEAN" /\ name = "Office & Writing" -> "Ufficio e Scrittura"
      [] type = "MIDOCEAN" /\ name = "Notebooks"        -> "Quaderni"
      [] OTHER -> name

\* DataMapper.create_or_get_category: get_or_create by slug, level by level
RECURSIVE CreateOrGetCategory(_, _, _, _)
CreateOrGetCategory(cats, path, type, parent) ==
    IF path = <<>> THEN [categories |-> cats, category |-> parent]
    ELSE LET name == MapCategoryName(Head(path), type)
             slug == Slugify(name)
             cats2 == IF \E c \in cats : c.slug = slug THEN cats
                      ELSE cats \cup {[name |-> name, slug |-> slug, parent |-> parent]}
         IN  CreateOrGetCategory(cats2, Tail(path), type, slug)

\* Category.objects.filter(name=clean_name).first(): the slug of the row
\* found, "" when there is none
FindCategoryByName(cats, name) ==
    IF \E c \in cats : c.name = name
    THEN (CHOOSE c \in cats : c.name = name).slug
    ELSE ""

\* Category.objects.create(name, slug) of _get_or_create_simple_category: its
\* IntegrityError (slug taken) is caught by the method, which returns None
CreateSimpleCategory(cats, name) ==
    IF \E c \in cats : c.slug = Slugify(name)
    THEN [categories |-> cats, category |-> ""]
    ELSE [categories |-> cats \cup {[name |-> name, slug |-> Slugify(name), parent |-> ""]},
          category |-> Slugify(name)]

\* SyncService._get_or_create_simple_category: lookup by exact name, else create
GetOrCreateSimpleCategory(cats, name) ==
    IF name = "" THEN [categories |-> cats, category |-> ""]
    ELSE IF FindCategoryByName(cats, name) # ""
    THEN [categories |-> cats, category |-> FindCategoryByName(cats, name)]
    ELSE CreateSimpleCategory(cats, name)

\* the default_names table of _get_default_category, keyed by supplier_type
\* ('MKTO' is no supplier_type), else f'Prodotti {supplier.name}'
DefaultCategoryName(s, name) ==
    CASE SupplierType(s) = "BIC"      -> "Prodotti BIC"
      [] SupplierType(s) = "MIDOCEAN" -> "Prodotti Midocean"
      [] OTHER -> IF name = "Makito" THEN "Prodotti Makito" ELSE "Prodotti MKTO"

\* SyncService._get_default_category: Category.objects.get_or_create by name
GetDefaultCategory(cats, s, sname) ==
    LET name == DefaultCategoryName(s, sname) IN
    IF \E c \in cats : c.name = name
    THEN [categories |-> cats,
          category |-> (CHOOSE c \in cats : c.name = name).slug]
    ELSE IF \E c \in cats : c.slug = Slugify(name)
    THEN [categories |-> cats, category |-> ""]
    ELSE [categories |-> cats \cup {[name |-> name, slug |-> Slugify(name), parent |-> ""]},
          category |-> Slugify(name)]

\* the Category.objects.create of strategy 2 is reached and fails, given
\* what the lookup by name has found.  Model.save marks the transaction of
\* the record for rollback: every later query of the block raises
\* TransactionManagementError and the block rolls back when it is left.
SimpleCreateFails(cats, mapped, found) ==
    /\ mapped.category_path = <<>>
    /\ mapped.categories # <<>>
    /\ mapped.categories[1] # ""
    /\ found = ""
    /\ \E c \in cats : c.slug = Slugify(mapped.categories[1])

\* the transaction of the record is marked for rollback by its category step
MarkedForRollback(cats, mapped) ==
    SimpleCreateFails(cats, mapped,
        IF mapped.categories = <<>> THEN ""
        ELSE FindCategoryByName(cats, mapped.categories[1]))

\* SyncService._assign_product_category: the first strategy that yields a
\* category wins; [categories, category] with category = "" when none did
AssignProductCategory(cats, mapped, s, sname) ==
    LET byPath == CreateOrGetCategory(cats, mapped.category_path, SupplierType(s), "")
        byList == GetOrCreateSimpleCategory(cats, mapped.categories[1])
    IN  IF mapped.category_path # <<>> THEN byPath
        ELSE IF mapped.categories # <<>> /\ byList.category # "" THEN byList
        ELSE IF MarkedForRollback(cats, mapped)
        THEN [categories |-> cats, category |-> ""]
        ELSE GetDefaultCategory(cats, s, sname)

\* SyncService._assign_main_price: the first tier of the record's price list
AssignMainPrice(product, ptiers) ==
    IF ptiers # <<>> /\ ptiers[1].price > 0
    THEN [product EXCEPT !.base_price = ptiers[1].price,
                         !.currency = Get(ptiers[1], "currency", "EUR")]
    ELSE product

\* SyncService._process_product_enhancements.  The class defines neither
\* _sync_product_stock nor _sync_product_prices: the call made for a record
\* with prices raises AttributeError, which the method catches and logs.
ProcessProductEnhancements(cats, product, mapped, s, sname) ==
    LET a  == AssignProductCategory(cats, mapped, s, sname)
        p1 == IF a.category # "" THEN [product EXCEPT !.category = a.category]
              ELSE product
    IN  [categories |-> a.categories, product |-> AssignMainPrice(p1, mapped.prices)]

-----------------------------------------------------------------------------
(* Rows of SyncLog and SyncError, SyncService.stats *)

ZeroStats ==
    [products_processed |-> 0, products_created |-> 0, products_updated |-> 0,
     products_errors |-> 0, variants_processed |-> 0, stock_updated |-> 0,
     prices_updated |-> 0, woo_synced |-> 0]

\* SyncLog.objects.create(supplier=supplier, sync_type='FULL', status='RUNNING')
NewSyncLog(s) ==
    [supplier |-> s, status |-> "RUNNING", completed_at |-> 0,
     products_processed |-> 0, products_created |-> 0,
     products_updated |-> 0, products_errors |-> 0]

\* the SyncError of the per-record handler of _sync_products
ProductError(s, raw) ==
    [supplier |-> s, error_type |-> "PARSING_ERROR", object_type |-> "product",
     object_id |-> Get(raw, "supplier_ref", NoStr), context_data |-> raw]

\* the SyncError of the handler of sync_supplier
SystemError(s, st) ==
    [supplier |-> s, error_type |-> "SYSTEM_ERROR", object_type |-> "",
     object_id |-> NoStr, context_data |-> [stats |-> st]]

NoFetch == [products |-> "none", stock |-> "none", prices |-> "none"]
NoPush == [kind |-> "none"]
NoRecord == [phase |-> "none"]

\* the record a per-record step is given, after the records of the same feed
\* that were processed before it
NextRecord(last, phase, raw) ==
    [phase |-> phase, raw |-> raw,
     before |-> IF last.phase = phase THEN Append(last.before, last.raw) ELSE <<>>]

-----------------------------------------------------------------------------
(* The state after construction: empty tables, a configured supplier list *)

InitWith(actives, names) ==
    /\ supplierName \in names
    /\ supplierActive \in {[s \in Suppliers |-> s \in a] : a \in actives}
    /\ lastSync = [s \in Suppliers |-> 0]
    /\ products = {}
    /\ variants = {}
    /\ categories = {}
    /\ stocks = {}
    /\ prices = <<>>
    /\ syncLogs = <<>>
    /\ syncErrors = <<>>
    /\ wooProducts = {}
    /\ pushState = [offset |-> 0, synced |-> 0]
    /\ clock = 1
    /\ pc = "idle"
    /\ caller = "none"
    /\ queue = <<>>
    /\ cur = "none"
    /\ syncWoo = FALSE
    /\ rawProducts = <<>>
    /\ rawStock = <<>>
    /\ rawPrices = <<>>
    /\ fetched = NoFetch
    /\ stats = ZeroStats
    /\ results = <<>>
    /\ attempted = {}
    /\ lastPush = NoPush
    /\ lastRecord = NoRecord

dbVars == << products, variants, categories, stocks, prices >>
wooVars == << wooProducts, pushState, lastPush >>
cfgVars == << supplierName, supplierActive >>
feedVars == << rawProducts, rawStock, rawPrices >>
\* what runs apart from the synchronous worker
apartVars == << client, feedFile, cacheEntry, lastFetch, pager, workers >>

-----------------------------------------------------------------------------
(* SyncService.sync_all_suppliers and the scripts that call sync_supplier *)

\* orderings of a set of suppliers by Supplier.Meta.ordering = ['name'];
\* suppliers of equal name come in any order
NameRank(n) ==
    CASE n = "BIC" -> 1 [] n = "MKTO" -> 2 [] n = "Makito" -> 3 [] n = "Midocean" -> 4

OrderedByName(S) ==
    {q \in [1..Cardinality(S) -> S] :
        /\ \A i, j \in DOMAIN q : i < j =>
              /\ q[i] # q[j]
              /\ NameRank(supplierName[q[i]]) <= NameRank(supplierName[q[j]])}

ActiveSuppliers == {s \in Suppliers : supplierActive[s]}

\* sync_all_suppliers is entered: the loop over the active suppliers starts
SyncAllSuppliers(woo) ==
    /\ pc = "idle"
    /\ Len(syncLogs) + Cardinality(ActiveSuppliers) <= MaxRuns
    /\ \E q \in OrderedByName(ActiveSuppliers) : queue' = q
    /\ caller' = "all"
    /\ syncWoo' = woo
    /\ results' = <<>>
    /\ attempted' = {}
    /\ pc' = "loop"
    /\ UNCHANGED << cfgVars, apartVars, lastSync, dbVars, syncLogs, syncErrors, wooVars, clock,
                    cur, feedVars, fetched, stats, lastRecord >>

\* a script calls sync_supplier on the supplier it looked up by code
CallSyncSupplier(s, woo) ==
    /\ pc = "idle"
    /\ Len(syncLogs) + 1 <= MaxRuns
    /\ queue' = <<s>>
    /\ caller' = "script"
    /\ syncWoo' = woo
    /\ results' = <<>>
    /\ attempted' = {}
    /\ pc' = "loop"
    /\ UNCHANGED << cfgVars, apartVars, lastSync, dbVars, syncLogs, syncErrors, wooVars, clock,
                    cur, feedVars, fetched, stats, lastRecord >>

-----------------------------------------------------------------------------
(* SyncService.sync_supplier *)

CurLog == Len(syncLogs)

\* clients whose get_products/get_stock/get_prices raise on a fetch or parse
\* failure; BICParser catches its own failures and returns []
ClientRaises(s) == ClientClass(s) # "BICParser"

\* sync_supplier up to the first statement of _sync_products: the stats are
\* reset, the SyncLog row is created RUNNING, the factory builds the client
\* (ValueError for an inactive supplier) and client.get_products() answers
\* with a feed or raises.  feed = <<>> and failing = TRUE is a fetch that failed.
BeginSyncSupplier(Feeds, Failing) ==
    /\ pc = "loop"
    /\ queue # <<>>
    /\ LET s == Head(queue) IN
       \E feed \in Feeds[s], failing \in Failing :
          /\ cur' = s
          /\ stats' = ZeroStats
          /\ syncLogs' = Append(syncLogs, NewSyncLog(s))
          /\ lastRecord' = NoRecord
          /\ rawStock' = <<>>
          /\ rawPrices' = <<>>
          /\ IF ~supplierActive[s]
             THEN /\ pc' = "failed"
                  /\ fetched' = NoFetch
                  /\ rawProducts' = <<>>
             ELSE IF failing /\ ClientRaises(s)
             THEN /\ pc' = "failed"
                  /\ fetched' = [NoFetch EXCEPT !.products = "error"]
                  /\ rawProducts' = <<>>
             ELSE /\ pc' = "products"
                  /\ fetched' = [NoFetch EXCEPT !.products =
                                    IF failing THEN "error" ELSE "ok"]
                  /\ rawProducts' = IF failing THEN <<>> ELSE feed
    /\ UNCHANGED << cfgVars, apartVars, lastSync, dbVars, syncErrors, wooVars, clock, caller,
                    queue, syncWoo, results, attempted >>

\* one pass of the loop of _sync_products: the record is mapped and written
\* inside transaction.atomic(); an exception is caught, counted and recorded.
\* A block that was marked for rollback is left without an exception: its
\* writes are undone and the record stays counted as processed.
SyncProductRecord ==
    /\ pc = "products"
    /\ rawProducts # <<>>
    /\ LET raw == Head(rawProducts)
           mapped == MapProductData(raw, cur)
           up == CreateOrUpdateProduct(products, mapped)
           vs == SyncProductVariants(
                    [variants |-> variants, errors |-> <<>>, created |-> 0],
                    up.product, mapped.variants)
           en == ProcessProductEnhancements(categories, up.product, mapped, cur,
                                            supplierName[cur])
       IN
       /\ rawProducts' = Tail(rawProducts)
       /\ lastRecord' = NextRecord(lastRecord, "products", raw)
       /\ IF Rejected(raw)
             \/ ProductSkuTaken(products, cur, mapped.supplier_ref, mapped.sku)
          THEN /\ stats' = [stats EXCEPT !.products_errors = @ + 1]
               /\ syncErrors' = Append(syncErrors, ProductError(cur, raw))
               /\ UNCHANGED << products, variants, categories >>
          ELSE /\ IF MarkedForRollback(categories, mapped)
                  THEN UNCHANGED << products, variants, categories, syncErrors >>
                  ELSE /\ products' = (up.products \ {up.product}) \cup {en.product}
                       /\ variants' = vs.variants
                       /\ categories' = en.categories
                       /\ syncErrors' = syncErrors \o vs.errors
               /\ stats' = [stats EXCEPT
                       !.products_created = @ + (IF up.created THEN 1 ELSE 0),
                       !.products_updated = @ + (IF up.created THEN 0 ELSE 1),
                       !.variants_processed = @ + vs.created,
                       !.products_processed = @ + 1]
    /\ UNCHANGED << cfgVars, apartVars, lastSync, stocks, prices, syncLogs, wooVars, clock, pc,
                    caller, queue, cur, syncWoo, rawStock, rawPrices, fetched,
                    results, attempted >>

\* SyncLog.mark_completed(status) of suppliers/models.py
MarkCompleted(log, status) ==
    [log EXCEPT !.status = status, !.completed_at = clock]

\* the end of the try block of sync_supplier: the counters are copied to the
\* SyncLog row and mark_completed('SUCCESS') finalizes it
CompleteSync ==
    /\ pc = "finish"
    /\ syncLogs' = [syncLogs EXCEPT ![CurLog] =
            MarkCompleted([@ EXCEPT
                !.products_processed = stats.products_processed,
                !.products_created = stats.products_created,
                !.products_updated = stats.products_updated,
                !.products_errors = stats.products_errors], "SUCCESS")]
    /\ lastSync' = [lastSync EXCEPT ![cur] = clock]
    /\ clock' = clock + 1
    /\ pc' = "returned"
    /\ UNCHANGED << cfgVars, apartVars, dbVars, syncErrors, wooVars, caller, queue, cur, syncWoo,
                    feedVars, fetched, stats, results, attempted, lastRecord >>

\* an except block that would advance last_sync of the supplier as well
HandleSyncErrorAdvancing ==
    /\ pc = "failed"
    /\ syncErrors' = Append(syncErrors, SystemError(cur, stats))
    /\ lastSync' = [lastSync EXCEPT ![cur] = clock]
    /\ pc' = "raised"
    /\ UNCHANGED << cfgVars, apartVars, dbVars, syncLogs, wooVars, clock, caller,
                    queue, cur, syncWoo, feedVars, fetched, stats, results,
                    attempted, lastRecord >>

\* the except block of sync_supplier: the SyncError row is created, then
\* sync_log.mark_completed('ERROR', error_msg) is called with two arguments
\* on SyncLog.mark_completed(self, status), which raises TypeError before it
\* assigns anything: the exception leaves sync_supplier
HandleSyncError ==
    /\ pc = "failed"
    /\ syncErrors' = Append(syncErrors, SystemError(cur, stats))
    /\ pc' = "raised"
    /\ UNCHANGED << cfgVars, apartVars, lastSync, dbVars, syncLogs, wooVars, clock, caller,
                    queue, cur, syncWoo, feedVars, fetched, stats, results,
                    attempted, lastRecord >>

\* back in the caller: sync_all_suppliers stores the result (or, in its own
\* except block, the failure) under supplier.name and goes on with the next
\* supplier; a script just gets the result or the exception
ReturnToCaller ==
    /\ pc \in {"returned", "raised"}
    /\ attempted' = attempted \cup {cur}
    /\ queue' = Tail(queue)
    /\ pc' = "loop"
    /\ results' = IF caller = "all"
                  THEN [n \in DOMAIN results \cup {supplierName[cur]} |->
                          IF n = supplierName[cur]
                          THEN [success |-> pc = "returned", stats |-> stats]
                          ELSE results[n]]
                  ELSE results
    /\ UNCHANGED << cfgVars, apartVars, lastSync, dbVars, syncLogs, syncErrors, wooVars, clock,
                    caller, cur, syncWoo, feedVars, fetched, stats, lastRecord >>

\* the loop of the caller is over: the invocation returns
EndInvocation ==
    /\ pc = "loop"
    /\ queue = <<>>
    /\ pc' = "idle"
    /\ UNCHANGED << cfgVars, apartVars, lastSync, dbVars, syncLogs, syncErrors, wooVars, clock,
                    caller, queue, cur, syncWoo, feedVars, fetched, stats, results,
                    attempted, lastRecord >>

-----------------------------------------------------------------------------
(* SyncService._sync_stock *)

\* int(x) on the quantities a Midocean stock record carries as text
ParseInt(x) ==
    CASE x = "0" -> 0
      [] x = "3" -> 3
      [] x = "5" -> 5

\* DataMapper.map_stock_data
MapStockData(raw, s) ==
    CASE SupplierType(s) = "MIDOCEAN" ->
           [sku |-> Get(raw, "sku", NoStr),
            stock_quantity |-> ParseInt(Get(raw, "qty", "0")),
            availability_status |->
               IF ParseInt(Get(raw, "qty", "0")) > 0 THEN "available" ELSE "out_of_stock"]
      [] SupplierType(s) = "MAKITO" ->
           [sku |-> Get(raw, "sku", NoStr),
            stock_quantity |-> Get(raw, "stock_quantity", 0),
            availability_status |-> Get(raw, "availability", "unknown")]
      [] SupplierType(s) = "BIC" ->
           [sku |-> Get(raw, "sku", NoStr), quantity |-> 0]

\* SyncService._find_variant_by_sku: the variants with this SKU whose product
\* belongs to the supplier (at most one, ProductVariant.sku being unique)
FindVariantBySku(vs, ps, sku, s) ==
    {v \in vs : v.sku = sku /\ \E p \in ps : p.id = v.product /\ p.supplier = s}

VariantKey(v) == [product |-> v.product, supplier_variant_ref |-> v.supplier_variant_ref]

\* a stock write that adds the incoming quantity to the stored one
AccumulateStock(st, v, mapped) ==
    LET old == {x \in st : x.variant = VariantKey(v)}
        had == IF old = {} THEN 0 ELSE (CHOOSE x \in old : TRUE).stock_quantity
    IN  (st \ old)
        \cup {[variant |-> VariantKey(v),
               stock_quantity |-> had + Get(mapped, "stock_quantity", 0),
               availability_status |-> Get(mapped, "availability_status", "unknown")]}

\* Stock.objects.update_or_create(variant=variant, defaults={...})
UpsertStock(st, v, mapped) ==
    {x \in st : x.variant # VariantKey(v)}
    \cup {[variant |-> VariantKey(v),
           stock_quantity |-> Get(mapped, "stock_quantity", 0),
           availability_status |-> Get(mapped, "availability_status", "unknown")]}

\* the end of _sync_products and the start of _sync_stock: client.get_stock()
\* answers with a feed or raises; _sync_stock catches the exception and
\* returns a result with an 'error' key, and sync_supplier goes on
FetchStock(Feeds, Failing) ==
    /\ pc = "products"
    /\ rawProducts = <<>>
    /\ \E feed \in Feeds[cur], failing \in Failing :
          /\ rawStock' = IF failing \/ ClientClass(cur) = "BICParser" THEN <<>> ELSE feed
          /\ fetched' = [fetched EXCEPT !.stock =
                IF failing /\ ClientRaises(cur) THEN "error" ELSE "ok"]
    /\ pc' = "stock"
    /\ UNCHANGED << cfgVars, apartVars, lastSync, dbVars, syncLogs, syncErrors, wooVars, clock,
                    caller, queue, cur, syncWoo, rawProducts, rawPrices, stats,
                    results, attempted, lastRecord >>

\* one pass of the loop of _sync_stock
SyncStockRecord ==
    /\ pc = "stock"
    /\ rawStock # <<>>
    /\ LET raw == Head(rawStock)
           mapped == MapStockData(raw, cur)
           found == FindVariantBySku(variants, products, Get(mapped, "sku", NoStr), cur)
       IN
       /\ rawStock' = Tail(rawStock)
       /\ lastRecord' = NextRecord(lastRecord, "stock", raw)
       /\ IF found # {}
          THEN /\ stocks' = UpsertStock(stocks, CHOOSE v \in found : TRUE, mapped)
               /\ stats' = [stats EXCEPT !.stock_updated = @ + 1]
          ELSE UNCHANGED << stocks, stats >>
    /\ UNCHANGED << cfgVars, apartVars, lastSync, products, variants, categories, prices,
                    syncLogs, syncErrors, wooVars, clock, pc, caller, queue, cur,
                    syncWoo, rawProducts, rawPrices, fetched, results, attempted >>

-----------------------------------------------------------------------------
(* SyncService._sync_prices *)

\* DataMapper._map_midocean_prices: the base tier, then one tier per scale entry
MapMidoceanPrices(raw) ==
    LET sc == Get(raw, "scale", <<>>) IN
    <<[sku |-> Get(raw, "sku", NoStr), price |-> Get(raw, "price", 0),
       min_quantity |-> 1, max_quantity |-> NoId]>>
    \o [i \in DOMAIN sc |->
          [sku |-> Get(raw, "sku", NoStr), price |-> Get(sc[i], "price", 0),
           min_quantity |-> Get(sc[i], "minimum_quantity", 1),
           max_quantity |-> NoId]]

\* DataMapper._map_makito_prices: tiers with a positive price, without 'sku'
MapMakitoPrices(raw) ==
    LET pr == SelectSeq(Get(raw, "price_ranges", <<>>), LAMBDA r : r.price > 0) IN
    [i \in DOMAIN pr |->
        [supplier_ref |-> Get(raw, "supplier_ref", NoStr), price |-> pr[i].price,
         min_quantity |-> pr[i].min_quantity, max_quantity |-> NoId]]

\* DataMapper._map_bic_prices
MapBicPrices(raw) ==
    LET pr == Get(raw, "prices", <<>>) IN
    [i \in DOMAIN pr |->
        [sku |-> Get(raw, "sku", NoStr), price |-> Get(pr[i], "price", 0),
         min_quantity |-> Get(pr[i], "min_quantity", 1),
         max_quantity |-> Get(pr[i], "max_quantity", UnboundedQty)]]

\* DataMapper.map_price_data
MapPriceData(raw, s) ==
    CASE SupplierType(s) = "MIDOCEAN" -> MapMidoceanPrices(raw)
      [] SupplierType(s) = "MAKITO"   -> MapMakitoPrices(raw)
      [] SupplierType(s) = "BIC"      -> MapBicPrices(raw)

\* Price.objects.filter(variant=variant).update(is_active=False)
DeactivatePrices(pr, v) ==
    [i \in DOMAIN pr |->
        IF pr[i].variant = VariantKey(v) THEN [pr[i] EXCEPT !.is_active = FALSE]
        ELSE pr[i]]

\* Price.objects.create(variant=variant, ..., is_active=True)
NewPrice(v, tier) ==
    [variant |-> VariantKey(v), price |-> Get(tier, "price", 0),
     min_quantity |-> Get(tier, "min_quantity", 1),
     max_quantity |-> Get(tier, "max_quantity", NoId), is_active |-> TRUE]

\* the body of the inner loop of _sync_prices for one mapped tier: the
\* variant's rows are deactivated, then the tier is inserted as active
ApplyPriceTier(pr, v, tier) == Append(DeactivatePrices(pr, v), NewPrice(v, tier))

\* the inner loop of _sync_prices over the mapped tiers of one record;
\* acc = [prices, updated]
RECURSIVE ApplyPriceTiers(_, _, _, _, _)
ApplyPriceTiers(acc, tiers, vs, ps, s) ==
    IF tiers = <<>> THEN acc
    ELSE LET found == FindVariantBySku(vs, ps, Get(Head(tiers), "sku", <<"None">>), s)
             acc2 == IF found = {} THEN acc
                     ELSE [prices |-> ApplyPriceTier(acc.prices,
                                         CHOOSE v \in found : TRUE, Head(tiers)),
                           updated |-> acc.updated + 1]
         IN  ApplyPriceTiers(acc2, Tail(tiers), vs, ps, s)

\* the end of _sync_stock and the start of _sync_prices: client.get_prices()
\* answers with a feed or raises; the exception is caught the same way
FetchPrices(Feeds, Failing) ==
    /\ pc = "stock"
    /\ rawStock = <<>>
    /\ \E feed \in Feeds[cur], failing \in Failing :
          /\ rawPrices' = IF failing \/ ClientClass(cur) = "BICParser" THEN <<>> ELSE feed
          /\ fetched' = [fetched EXCEPT !.prices =
                IF failing /\ ClientRaises(cur) THEN "error" ELSE "ok"]
    /\ pc' = "prices"
    /\ UNCHANGED << cfgVars, apartVars, lastSync, dbVars, syncLogs, syncErrors, wooVars, clock,
                    caller, queue, cur, syncWoo, rawProducts, rawStock, stats,
                    results, attempted, lastRecord >>

\* one pass of the outer loop of _sync_prices
SyncPriceRecord ==
    /\ pc = "prices"
    /\ rawPrices # <<>>
    /\ LET raw == Head(rawPrices)
           r == ApplyPriceTiers([prices |-> prices, updated |-> 0],
                                MapPriceData(raw, cur), variants, products, cur)
       IN
       /\ rawPrices' = Tail(rawPrices)
       /\ lastRecord' = NextRecord(lastRecord, "prices", raw)
       /\ prices' = r.prices
       /\ stats' = [stats EXCEPT !.prices_updated = @ + r.updated]
    /\ UNCHANGED << cfgVars, apartVars, lastSync, products, variants, categories, stocks,
                    syncLogs, syncErrors, wooVars, clock, pc, caller, queue, cur,
                    syncWoo, rawProducts, rawStock, fetched, results, attempted >>

-----------------------------------------------------------------------------
(* WooCommerceClient.  A remote product is [id, sku, status]; the shop      *)
(* answers each request or fails it (a non-2xx status or an exception);     *)
(* whether it does is the environment's choice.                             *)

\* Python truth of an optional integer: None and 0 are false
Truthy(id) == id # NoId /\ id # 0

NextWooId(remote) == Cardinality(remote) + 1

\* the part of _prepare_woocommerce_product's payload that identifies it
WooData(p) == [sku |-> p.sku, supplier_ref |-> p.supplier_ref]

Request(op, data, target) == [op |-> op, sku |-> data.sku, target |-> target]

\* WooCommerceClient.update_product_draft: PUT products/<id>
UpdateProductDraft(remote, id, data, ok) ==
    IF ok /\ \E w \in remote : w.id = id
    THEN [remote |-> {w \in remote : w.id # id}
                     \cup {[id |-> id, sku |-> data.sku, status |-> "draft"]},
          result |-> id, requests |-> <<Request("update", data, id)>>]
    ELSE [remote |-> remote, result |-> NoId,
          requests |-> <<Request("update", data, id)>>]

\* WooCommerceClient.create_product_draft: POST products
CreateProductDraft(remote, data, ok) ==
    IF ok
    THEN [remote |-> remote \cup {[id |-> NextWooId(remote), sku |-> data.sku,
                                   status |-> "draft"]},
          result |-> NextWooId(remote), requests |-> <<Request("create", data, NoId)>>]
    ELSE [remote |-> remote, result |-> NoId,
          requests |-> <<Request("create", data, NoId)>>]

\* WooCommerceClient.get_product_by_sku: the first product the shop lists
\* under the SKU, None when there is none or the lookup fails
GetProductBySku(remote, sku, ok) ==
    IF ok /\ \E w \in remote : w.sku = sku
    THEN (CHOOSE w \in remote : w.sku = sku /\ \A x \in remote : x.sku = sku => w.id <= x.id).id
    ELSE NoId

\* WooCommerceClient.create_or_update_product
WooCreateOrUpdateProduct(remote, data, existing, lookupOk, writeOk) ==
    IF Truthy(existing) THEN UpdateProductDraft(remote, existing, data, writeOk)
    ELSE IF Truthy(GetProductBySku(remote, data.sku, lookupOk))
    THEN UpdateProductDraft(remote, GetProductBySku(remote, data.sku, lookupOk),
                            data, writeOk)
    ELSE CreateProductDraft(remote, data, writeOk)

\* the 'create' list of the shop's answer to POST products/batch: an accepted
\* item carries its new id, a refused one carries id 0 and an error
RECURSIVE BatchAnswer(_, _, _, _)
BatchAnswer(remote, datas, refused, i) ==
    IF i > Len(datas) THEN [remote |-> remote, ids |-> <<>>]
    ELSE IF i \in refused
    THEN LET rest == BatchAnswer(remote, datas, refused, i + 1)
         IN  [remote |-> rest.remote, ids |-> <<0>> \o rest.ids]
    ELSE LET new == [id |-> NextWooId(remote), sku |-> datas[i].sku, status |-> "draft"]
             rest == BatchAnswer(remote \cup {new}, datas, refused, i + 1)
         IN  [remote |-> rest.remote, ids |-> <<new.id>> \o rest.ids]

\* WooCommerceClient.bulk_create_products: every payload goes into 'create'
BulkCreateProducts(remote, datas, ok, refused) ==
    LET a == BatchAnswer(remote, datas, refused, 1)
        reqs == [i \in DOMAIN datas |-> Request("batch_create", datas[i], NoId)]
    IN  IF ok
        THEN [success |-> TRUE, remote |-> a.remote, created |-> Len(a.ids),
              products |-> a.ids, requests |-> reqs]
        ELSE [success |-> FALSE, remote |-> remote, created |-> 0,
              products |-> <<>>, requests |-> reqs]

-----------------------------------------------------------------------------
(* SyncService._sync_to_woocommerce *)

\* Product.objects.filter(supplier=supplier, is_active=True)
ProductsToPush(ps, s) == {p \in ps : p.supplier = s}

\* the orders in which the queryset may list the rows: Product.Meta.ordering
\* is ['name'], and the name of a product is whatever the feed gave it
Orderings(S) ==
    {q \in [1..Cardinality(S) -> S] : \A i, j \in DOMAIN q : i # j => q[i] # q[j]}

Min(a, b) == IF a < b THEN a ELSE b

\* products[i:i+batch_size]
BatchSlice(order, offset) ==
    SubSeq(order, offset + 1, Min(offset + BatchSize, Len(order)))

\* the payloads of the products of the batch whose preparation did not raise
PreparedData(batch, prepFail) ==
    LET ok == SelectSeq(batch, LAMBDA p : p.id \notin prepFail)
    IN  [i \in DOMAIN ok |-> WooData(ok[i])]

\* the branch taken for exactly one payload: create_or_update_product is
\* given the payload and the woocommerce_id of `product`, the variable the
\* preparation loop left on the last product of the batch
PushSingle(ps, remote, batch, datas, lookupOk, writeOk) ==
    LET last == batch[Len(batch)]
        r == WooCreateOrUpdateProduct(remote, datas[1], last.woocommerce_id,
                                      lookupOk, writeOk)
    IN  [kind |-> "single",
         products |-> IF r.result # NoId
                      THEN (ps \ {last}) \cup {[last EXCEPT !.woocommerce_id = r.result]}
                      ELSE ps,
         remote |-> r.remote,
         synced |-> IF r.result # NoId THEN 1 ELSE 0,
         success |-> r.result # NoId,
         answers |-> <<r.result>>,
         requests |-> r.requests]

\* the branch taken for two payloads or more: bulk_create_products, then the
\* id of the i-th answer is stored on the i-th product of the batch
PushBulk(ps, remote, batch, datas, writeOk, refused) ==
    LET r == BulkCreateProducts(remote, datas, writeOk, refused)
        Answered(p) == {i \in DOMAIN r.products : i <= Len(batch) /\ batch[i] = p}
    IN  [kind |-> "batch",
         products |-> {IF Answered(p) # {}
                       THEN [p EXCEPT !.woocommerce_id =
                                r.products[CHOOSE i \in Answered(p) : TRUE]]
                       ELSE p : p \in ps},
         remote |-> r.remote,
         synced |-> r.created,
         success |-> r.success,
         answers |-> r.products,
         requests |-> r.requests]

\* a batch none of whose products could be prepared
PushNothing(ps, remote) ==
    [kind |-> "empty", products |-> ps, remote |-> remote, synced |-> 0,
     success |-> TRUE, answers |-> <<>>, requests |-> <<>>]

\* the end of _sync_prices and the sync_to_woocommerce test of sync_supplier
StartPush ==
    /\ pc = "prices"
    /\ rawPrices = <<>>
    /\ pc' = IF syncWoo THEN "push" ELSE "finish"
    /\ pushState' = [offset |-> 0, synced |-> 0]
    /\ UNCHANGED << cfgVars, apartVars, lastSync, dbVars, syncLogs, syncErrors, wooProducts,
                    lastPush, clock, caller, queue, cur, syncWoo, feedVars, fetched,
                    stats, results, attempted, lastRecord >>

\* one pass of the batch loop of _sync_to_woocommerce
PushBatch(PrepFails) ==
    /\ pc = "push"
    /\ pushState.offset < Cardinality(ProductsToPush(products, cur))
    /\ \E order \in Orderings(ProductsToPush(products, cur)),
          prepFail \in PrepFails, lookupOk, writeOk \in BOOLEAN,
          refused \in SUBSET (1..Cardinality(ProductsToPush(products, cur))) :
          LET batch == BatchSlice(order, pushState.offset)
              datas == PreparedData(batch, prepFail)
              r == IF datas = <<>> THEN PushNothing(products, wooProducts)
                   ELSE IF Len(datas) = 1
                   THEN PushSingle(products, wooProducts, batch, datas, lookupOk, writeOk)
                   ELSE PushBulk(products, wooProducts, batch, datas, writeOk, refused)
          IN  /\ products' = r.products
              /\ wooProducts' = r.remote
              /\ pushState' = [offset |-> pushState.offset + BatchSize,
                               synced |-> pushState.synced + r.synced]
              /\ lastPush' = [kind |-> r.kind, supplier |-> cur, batch |-> batch,
                              success |-> r.success, answers |-> r.answers,
                              requests |-> r.requests]
    /\ UNCHANGED << cfgVars, apartVars, lastSync, variants, categories, stocks, prices, syncLogs,
                    syncErrors, clock, pc, caller, queue, cur, syncWoo, feedVars,
                    fetched, stats, results, attempted, lastRecord >>

\* the batch loop is over: the count goes to the stats, sync_supplier goes on
FinishPush ==
    /\ pc = "push"
    /\ pushState.offset >= Cardinality(ProductsToPush(products, cur))
    /\ stats' = [stats EXCEPT !.woo_synced = pushState.synced]
    /\ pc' = "finish"
    /\ UNCHANGED << cfgVars, apartVars, lastSync, dbVars, syncLogs, syncErrors, wooVars, clock,
                    caller, queue, cur, syncWoo, feedVars, fetched, results,
                    attempted, lastRecord >>

-----------------------------------------------------------------------------
(* Feeds.  The records are the dicts the clients return; a feed is a       *)
(* sequence of at most MaxFeed of them.                                    *)

SeqsUpTo(S, n) == UNION {[1..k -> S] : k \in 0..n}

\* Midocean API products: master A with variant X, master B with the
\* variants X and X_2, master C that the database refuses
MidA ==
    [master_code |-> <<"A">>, category_level1 |-> "Office & Writing",
     variants |-> <<[sku |-> <<"X">>, color_description |-> <<"RED">>]>>]

MidB ==
    [master_code |-> <<"B">>,
     variants |-> <<[sku |-> <<"X">>], [sku |-> <<"X", Sep, "2">>]>>]

MidBad == [master_code |-> <<"C">>, invalid |-> TRUE]

\* MakitoParser, MKTOParser and BICParser products
MakA ==
    [supplier_ref |-> <<"A">>,
     variants |-> <<[refct |-> <<"A", "R">>, colour |-> <<"RED">>]>>]

MktoA ==
    [supplier_ref |-> <<"A">>,
     variants |-> <<[supplier_variant_ref |-> <<"A", "R">>, sku |-> <<"A", Sep, "RED">>,
                     color |-> <<"RED">>, size |-> <<"ST">>]>>]

BicA ==
    [supplier_ref |-> <<"A">>, sku |-> <<"BIC", Sep, "A">>,
     categories |-> <<"BIC", "Prodotti Promozionali">>,
     variants |-> <<[supplier_variant_ref |-> <<"A">>, sku |-> <<"BIC", Sep, "A">>,
                     color |-> NoStr, size |-> NoStr]>>,
     prices |-> <<[min_quantity |-> 1, max_quantity |-> UnboundedQty, price |-> 3]>>]

\* one valid product of the supplier's client
SampleProduct(s) ==
    CASE ClientClass(s) = "MidoceanClient" -> MidA
      [] ClientClass(s) = "MakitoParser"   -> MakA
      [] ClientClass(s) = "MKTOParser"     -> MktoA
      [] ClientClass(s) = "BICParser"      -> BicA

NoFeed == [s \in Suppliers |-> {<<>>}]
SampleFeeds == [s \in Suppliers |-> {<<>>, <<SampleProduct(s)>>}]
MidoceanProductFeeds == [s \in Suppliers |-> SeqsUpTo({MidA, MidB, MidBad}, MaxFeed)]

-----------------------------------------------------------------------------
(* Supplier clients: get_products of MKTOParser, MakitoParser,             *)
(* MidoceanClient and BICParser over the feed of the supplier and the      *)
(* django cache.  get_stock and get_prices of each class repeat the code   *)
(* of its get_products under a key of their own.                           *)

ClientClasses == {"MKTOParser", "MakitoParser", "MidoceanClient", "BICParser"}

NoLimit == 0          \* limit=None; `if limit` takes None and 0 alike
\* an entry of the cache: cache.get(key) answers None when there is none
NoEntry == [present |-> FALSE, data |-> <<>>]
Stored(data) == [present |-> TRUE, data |-> data]
NoCall == [called |-> FALSE]

\* the sequences of at most n different members of S
DistinctSeqs(S, n) ==
    {q \in SeqsUpTo(S, n) : \A i, j \in DOMAIN q : i # j => q[i] # q[j]}

\* seq[:n]
Take(seq, n) == SubSeq(seq, 1, Min(n, Len(seq)))

\* <product> elements of alldatafile_ita.xml: two products, and markup that
\* is not well-formed XML
XmlA == [ref |-> <<"A">>, name |-> "penna", wellFormed |-> TRUE]
XmlB == [ref |-> <<"B">>, name |-> "tazza", wellFormed |-> TRUE]
XmlBroken == [wellFormed |-> FALSE]

\* rows of the BIC CSV: product A in English and in Italian, product B in
\* Italian, and a row of a product that is not active
RowAEn == [productCode |-> <<"A">>, language |-> "en", active |-> "1", name |-> "pen"]
RowAIt == [productCode |-> <<"A">>, language |-> "it", active |-> "1", name |-> "penna"]
RowBIt == [productCode |-> <<"B">>, language |-> "it", active |-> "1", name |-> "tazza"]
RowCOff == [productCode |-> <<"C">>, language |-> "it", active |-> "0", name |-> "gomma"]

\* what the feed of a client class may hold
FeedsOf(c) ==
    CASE c \in {"MKTOParser", "MakitoParser"} ->
            DistinctSeqs({XmlA, XmlB, XmlBroken}, MaxElements)
      [] c = "MidoceanClient" -> DistinctSeqs({MidA, MidB}, MaxElements)
      [] c = "BICParser" -> DistinctSeqs({RowAEn, RowAIt, RowBIt, RowCOff}, MaxElements)

\* the outcome of a fetch: the exception escapes, or a list is returned
Raised == [raised |-> TRUE, records |-> <<>>]
Returned(records) == [raised |-> FALSE, records |-> records]

\* `if cached_data:` is false for None and for the empty list
CacheHit(entry) == entry.present /\ entry.data # <<>>

\* MKTOParser._standardize_mkto_product and
\* MakitoParser._standardize_product_data: 'ref' becomes 'supplier_ref'
StandardizeXmlProduct(elem) ==
    [supplier_ref |-> Get(elem, "ref", NoStr), name |-> Get(elem, "name", "")]

StandardizeXmlProducts(elems) ==
    [i \in DOMAIN elems |-> StandardizeXmlProduct(elems[i])]

\* the parse of MKTOParser.get_products: the loop asks the iterative parser
\* for one element after the other and breaks as soon as `limit` records are
\* appended; _parse_xml_iterative raises DataParsingError at the first
\* element that is not well-formed
MktoParse(feed, limit) ==
    LET read == IF limit # NoLimit THEN Take(feed, limit) ELSE feed
    IN  IF \E i \in DOMAIN read : ~read[i].wellFormed
        THEN Raised
        ELSE Returned(StandardizeXmlProducts(read))

\* the parse of MakitoParser.get_products: ET.parse reads the whole file
MakitoParse(feed) ==
    IF \E i \in DOMAIN feed : ~feed[i].wellFormed
    THEN Raised
    ELSE Returned(StandardizeXmlProducts(feed))

\* products_by_code[product_code][language] = row, the codes in the order
\* of their first row
BicAddRow(groups, row) ==
    IF \E i \in DOMAIN groups : groups[i].code = row.productCode
    THEN [i \in DOMAIN groups |->
            IF groups[i].code = row.productCode
            THEN [groups[i] EXCEPT
                     !.rows = {r \in @ : r.language # row.language} \cup {row}]
            ELSE groups[i]]
    ELSE Append(groups, [code |-> row.productCode, rows |-> {row}])

\* the row loop of BICParser.get_products: rows that are not active or have
\* no code are skipped, and the loop breaks as soon as `limit` codes are known
RECURSIVE BicGroupRows(_, _, _)
BicGroupRows(rows, groups, limit) ==
    IF rows = <<>> THEN groups
    ELSE LET row == Head(rows)
             added == BicAddRow(groups, row)
         IN  IF row.active # "1" \/ row.productCode = NoStr
             THEN BicGroupRows(Tail(rows), groups, limit)
             ELSE IF limit # NoLimit /\ Len(added) >= limit
             THEN added
             ELSE BicGroupRows(Tail(rows), added, limit)

\* the row BICParser._standardize_bic_product_data reads the product from:
\* the preferred language 'it', else 'en', else any
BicMainRow(rows) ==
    IF \E r \in rows : r.language = "it" THEN CHOOSE r \in rows : r.language = "it"
    ELSE IF \E r \in rows : r.language = "en" THEN CHOOSE r \in rows : r.language = "en"
    ELSE CHOOSE r \in rows : TRUE

StandardizeBicProductData(group) ==
    [supplier_ref |-> group.code, sku |-> <<"BIC", Sep>> \o group.code,
     name |-> BicMainRow(group.rows).name, multilang_data |-> group.rows]

\* BICParser.get_products: no cache, force_refresh is not read
BicGetProducts(feed, limit) ==
    LET groups == BicGroupRows(feed, <<>>, limit)
    IN  Returned([i \in DOMAIN groups |-> StandardizeBicProductData(groups[i])])

\* MKTOParser.get_products: the lookup and the store are each inside a try
\* of their own; the list that was parsed, cut at `limit`, is what is stored
MktoGetProducts(feed, entry, limit, force, cacheUp) ==
    LET parsed == MktoParse(feed, limit)
    IN  IF ~force /\ cacheUp /\ CacheHit(entry)
        THEN [out |-> Returned(IF limit # NoLimit THEN Take(entry.data, limit)
                                                   ELSE entry.data),
              entry |-> entry]
        ELSE [out |-> parsed,
              entry |-> IF ~parsed.raised /\ cacheUp THEN Stored(parsed.records)
                                                     ELSE entry]

\* MakitoParser.get_products and MidoceanClient.get_products: cache.get is
\* called before the try, cache.set inside it; `limit` arrives in **kwargs
\* and is not read
UnguardedGetProducts(parsed, entry, force, cacheUp) ==
    IF ~cacheUp THEN [out |-> Raised, entry |-> entry]
    ELSE IF CacheHit(entry) /\ ~force
    THEN [out |-> Returned(entry.data), entry |-> entry]
    ELSE [out |-> parsed,
          entry |-> IF parsed.raised THEN entry ELSE Stored(parsed.records)]

\* client.get_products(limit=limit, force_refresh=force) of class c
ClientGetProducts(c, feed, entry, limit, force, cacheUp) ==
    CASE c = "MKTOParser" -> MktoGetProducts(feed, entry, limit, force, cacheUp)
      [] c = "MakitoParser" ->
            UnguardedGetProducts(MakitoParse(feed), entry, force, cacheUp)
      [] c = "MidoceanClient" ->
            UnguardedGetProducts(Returned(feed), entry, force, cacheUp)
      [] c = "BICParser" -> [out |-> BicGetProducts(feed, limit), entry |-> entry]

\* no page loop is running
NoPaging == [op |-> "none", page |-> 0, counted |-> 0, running |-> FALSE]

\* no worker runs beside the synchronous one
NoWorkers == [s \in {} |-> NoRecord]

\* no client is followed, no page loop is running, no parallel worker runs
ApartIdle ==
    /\ client = "none"
    /\ feedFile = <<>>
    /\ cacheEntry = NoEntry
    /\ lastFetch = NoCall
    /\ pager = NoPaging
    /\ workers = NoWorkers

\* everything the pipelines read or write
syncVars == << cfgVars, lastSync, dbVars, syncLogs, syncErrors, wooVars, clock, pc,
               caller, queue, cur, syncWoo, feedVars, fetched, stats, results,
               attempted, lastRecord, workers >>

\* one call of get_products on the client that is followed
GetProducts ==
    /\ client \in ClientClasses
    /\ \E limit \in 0..MaxLimit, force, cacheUp \in BOOLEAN :
          LET r == ClientGetProducts(client, feedFile, cacheEntry, limit, force, cacheUp)
          IN  /\ cacheEntry' = r.entry
              /\ lastFetch' = [called |-> TRUE, limit |-> limit, force_refresh |-> force,
                               cacheUp |-> cacheUp, feed |-> feedFile,
                               entry |-> cacheEntry, raised |-> r.out.raised,
                               records |-> r.out.records]
    /\ UNCHANGED << syncVars, client, feedFile, pager >>

\* the time-to-live of the entry runs out
ExpireEntry ==
    /\ client \in ClientClasses
    /\ cacheEntry.present
    /\ cacheEntry' = NoEntry
    /\ UNCHANGED << syncVars, client, feedFile, lastFetch, pager >>

\* the supplier publishes another feed
ChangeFeed ==
    /\ client \in ClientClasses
    /\ feedFile' \in FeedsOf(client) \ {feedFile}
    /\ UNCHANGED << syncVars, client, cacheEntry, lastFetch, pager >>

\* page += 1 on a Python integer, which has no largest value: the model
\* keeps the numbers below MaxPages and the parity of the others
NextPage(page) == IF page < MaxPages THEN page + 1 ELSE MaxPages - 1

\* WooCommerceClient.get_categories and WooCommerceClient.clear_draft_products
\* are called: page = 1 and nothing collected or deleted
CallPaginated(op) ==
    /\ ~pager.running
    /\ pager' = [op |-> op, page |-> 1, counted |-> 0, running |-> TRUE]
    /\ UNCHANGED << syncVars, client, feedFile, cacheEntry, lastFetch >>

\* one pass of `while True`: the page is requested and the shop answers with
\* n items, with an empty page, with a status that is not 200, or the request
\* raises.  get_categories extends its list by the n items; clear_draft_products
\* deletes the items one by one and counts the deletions answered with 200.
\* The loop goes on after every page that is not empty: the code holds no
\* ceiling for `page`.
RequestPage ==
    /\ pager.running
    /\ \E answer \in {"items", "empty", "error", "raise"},
          n \in 1..MaxPageItems, deleted \in 0..MaxPageItems :
          /\ deleted <= n
          /\ pager' =
                CASE answer = "items" ->
                        [pager EXCEPT
                            !.page = NextPage(@),
                            !.counted = Min(@ + (IF pager.op = "get_categories"
                                                 THEN n ELSE deleted), MaxCounted)]
                  [] answer \in {"empty", "error"} -> [pager EXCEPT !.running = FALSE]
                  [] answer = "raise" -> [pager EXCEPT !.running = FALSE, !.counted = 0]
    /\ UNCHANGED << syncVars, client, feedFile, cacheEntry, lastFetch >>

-----------------------------------------------------------------------------
(* Runs: sync_all_suppliers and direct sync_supplier calls over any set of *)
(* active suppliers, every fetch answering or failing                      *)

InitRun == InitWith(SUBSET Suppliers, {DistinctNames, SharedNames}) /\ ApartIdle

NextRun ==
    \/ SyncAllSuppliers(FALSE)
    \/ \E s \in Suppliers : CallSyncSupplier(s, FALSE)
    \/ BeginSyncSupplier(SampleFeeds, BOOLEAN)
    \/ SyncProductRecord
    \/ FetchStock(NoFeed, BOOLEAN)
    \/ FetchPrices(NoFeed, BOOLEAN)
    \/ StartPush
    \/ CompleteSync
    \/ HandleSyncError
    \/ ReturnToCaller
    \/ EndInvocation

SpecRun == InitRun /\ [][NextRun]_vars

\* the call of sync_supplier that created the last SyncLog has ended
CallEnded == pc \in {"returned", "raised"}

\* C1: when a call of sync_supplier has ended, by a return or by an
\* exception, the SyncLog it created is in one of the terminal statuses
\* SUCCESS, PARTIAL, ERROR and has completed_at set
C1_RunFinalized ==
    CallEnded =>
        /\ syncLogs[CurLog].status \in {"SUCCESS", "PARTIAL", "ERROR"}
        /\ syncLogs[CurLog].completed_at # 0

\* C3: when one of the three fetches of a run failed, the run's SyncLog
\* ends with status ERROR
C3_FetchFailureIsError ==
    (CallEnded /\ "error" \in {fetched.products, fetched.stock, fetched.prices})
        => syncLogs[CurLog].status = "ERROR"

\* C4: when sync_all_suppliers returns, every active supplier has been
\* attempted and the results hold one entry per active supplier
C4_EveryActiveSupplier ==
    (caller = "all" /\ pc = "idle") =>
        /\ attempted = ActiveSuppliers
        /\ Cardinality(DOMAIN results) = Cardinality(ActiveSuppliers)

\* C19: last_sync of a supplier changes only in a step that takes a SyncLog
\* of that supplier from RUNNING to SUCCESS, and then to the completed_at of
\* that SyncLog
C19_LastSyncOnlyOnSuccess ==
    [][\A s \in Suppliers :
          lastSync'[s] # lastSync[s] =>
              \E i \in DOMAIN syncLogs :
                 /\ syncLogs[i].supplier = s
                 /\ syncLogs[i].status = "RUNNING"
                 /\ syncLogs'[i].status = "SUCCESS"
                 /\ syncLogs'[i].completed_at = lastSync'[s]]_vars

\* a supplier was synchronised with success, and a later run of it that
\* failed has ended: last_sync is still the end of the run that succeeded
C19_Witness ==
    /\ pc = "raised"
    /\ \E i, j \in DOMAIN syncLogs :
          /\ i < j
          /\ syncLogs[i].supplier = cur /\ syncLogs[j].supplier = cur
          /\ syncLogs[i].status = "SUCCESS"
          /\ syncLogs[j].status = "RUNNING"
          /\ lastSync[cur] = syncLogs[i].completed_at
          /\ lastSync[cur] # 0

-----------------------------------------------------------------------------
(* Product feeds of one supplier, synchronised again and again *)

InitProducts == InitWith({{"MID"}}, {DistinctNames}) /\ ApartIdle

NextProducts ==
    \/ SyncAllSuppliers(FALSE)
    \/ CallSyncSupplier("MID", FALSE)
    \/ BeginSyncSupplier(MidoceanProductFeeds, {FALSE})
    \/ SyncProductRecord
    \/ FetchStock(NoFeed, {FALSE})
    \/ FetchPrices(NoFeed, {FALSE})
    \/ StartPush
    \/ CompleteSync
    \/ ReturnToCaller
    \/ EndInvocation

SpecProducts == InitProducts /\ [][NextProducts]_vars

\* a step of the loop of _sync_products, and whether its record failed
ProductStep == pc = "products" /\ rawProducts # <<>> /\ rawProducts' = Tail(rawProducts)
RecordFailed == stats'.products_errors = stats.products_errors + 1

\* C2: a product record that fails adds exactly one SyncError, whose
\* object_id is the supplier_ref of the record, and the loop goes on: the
\* record is consumed, the next one is the head of the feed, and every step
\* of the loop advances the processed counter or the error counter
C2_RecordFailureRecorded ==
    [][ProductStep =>
         /\ pc' = "products"
         /\ stats'.products_processed + stats'.products_errors
               = stats.products_processed + stats.products_errors + 1
         /\ RecordFailed =>
               /\ Len(syncErrors') = Len(syncErrors) + 1
               /\ syncErrors'[Len(syncErrors')].object_id
                     = MapProductData(Head(rawProducts), cur).supplier_ref]_vars

C6_NoVariantLost ==
    /\ [](\A v, w \in variants : v.sku = w.sku => v = w)
    /\ [][(ProductStep /\ ~RecordFailed) =>
            LET mapped == MapProductData(Head(rawProducts), cur)
                prod == CHOOSE p \in ProductOf(products', cur, mapped.supplier_ref) : TRUE
            IN  \A i \in DOMAIN mapped.variants :
                   \E x \in variants' :
                      /\ x.product = prod.id
                      /\ x.supplier_variant_ref
                            = ResolvedVariantRef(prod, mapped.variants[i])]_vars

\* C12: a record one of whose writes fails (a SyncError is recorded during
\* its step) leaves no write behind: the product, variant and category rows
\* are as they were before the record
C12_RecordAllOrNothing ==
    [][(ProductStep /\ Len(syncErrors') > Len(syncErrors)) =>
            /\ products' = products
            /\ variants' = variants
            /\ categories' = categories]_vars

-----------------------------------------------------------------------------
(* Stock feeds of two suppliers that hold variants: Midocean holds X,      *)
(* Makito holds Y                                                          *)

MakY == [supplier_ref |-> <<"A">>, variants |-> <<[refct |-> <<"Y">>]>>]

StockX5 == [sku |-> <<"X">>, qty |-> "5"]
StockX0 == [sku |-> <<"X">>, qty |-> "0"]
StockY3 == [sku |-> <<"Y">>, qty |-> "3"]

StockProductFeeds == [s \in Suppliers |-> IF s = "MID" THEN {<<MidA>>} ELSE {<<MakY>>}]

StockFeeds ==
    [s \in Suppliers |-> IF s = "MID" THEN SeqsUpTo({StockX5, StockX0, StockY3}, MaxFeed)
    ELSE SeqsUpTo({[sku |-> <<"Y">>, stock_quantity |-> 5],
                   [sku |-> <<"X">>, stock_quantity |-> 3]}, MaxFeed)]

InitStock == InitWith({{"MID", "MAK2"}}, {DistinctNames}) /\ ApartIdle

NextStock ==
    \/ SyncAllSuppliers(FALSE)
    \/ \E s \in {"MID", "MAK2"} : CallSyncSupplier(s, FALSE)
    \/ BeginSyncSupplier(StockProductFeeds, {FALSE})
    \/ SyncProductRecord
    \/ FetchStock(StockFeeds, {FALSE})
    \/ SyncStockRecord
    \/ FetchPrices(NoFeed, {FALSE})
    \/ StartPush
    \/ CompleteSync
    \/ ReturnToCaller
    \/ EndInvocation

SpecStock == InitStock /\ [][NextStock]_vars

\* a step of the loop of _sync_stock
StockStep == pc = "stock" /\ rawStock # <<>> /\ rawStock' = Tail(rawStock)

StockOf(st, v) == {x \in st : x.variant = VariantKey(v)}

\* C8: a variant has at most one stock row; a stock record whose SKU is a
\* variant of the running supplier leaves that variant's row with the
\* record's quantity and every other row as it was; a record whose SKU is no
\* variant of the supplier, and every step that is no stock record, leaves
\* the stock rows as they were
C8_StockReplaces ==
    /\ [](\A a, b \in stocks : a.variant = b.variant => a = b)
    /\ [][IF StockStep
          THEN LET m == MapStockData(Head(rawStock), cur)
                   found == FindVariantBySku(variants, products, m.sku, cur)
               IN  IF found = {} THEN stocks' = stocks
                   ELSE \A v \in found :
                          /\ {x.stock_quantity : x \in StockOf(stocks', v)}
                                = {m.stock_quantity}
                          /\ stocks' \ StockOf(stocks', v) = stocks \ StockOf(stocks, v)
          ELSE stocks' = stocks]_vars

\* quantity 5 then quantity 0 for X have been applied: the row holds 0
C8_Witness ==
    /\ lastRecord.phase = "stock"
    /\ lastRecord.raw = StockX0
    /\ lastRecord.before # <<>>
    /\ lastRecord.before[Len(lastRecord.before)] = StockX5
    /\ \E x \in stocks : x.variant.supplier_variant_ref = <<"X">> /\ x.stock_quantity = 0

-----------------------------------------------------------------------------
(* Price feeds of Midocean: a base price and at most MaxScale scale tiers *)

ScaleTier == [minimum_quantity |-> 100, price |-> 8]

PriceRecords ==
    {[sku |-> <<"X">>, price |-> p, scale |-> sc] :
        p \in {10, 12}, sc \in SeqsUpTo({ScaleTier}, MaxScale)}

OneMidoceanProduct == [s \in Suppliers |-> {<<MidA>>}]
PriceFeeds == [s \in Suppliers |-> SeqsUpTo(PriceRecords, MaxFeed)]

InitPrices == InitWith({{"MID"}}, {DistinctNames}) /\ ApartIdle

NextPrices ==
    \/ SyncAllSuppliers(FALSE)
    \/ CallSyncSupplier("MID", FALSE)
    \/ BeginSyncSupplier(OneMidoceanProduct, {FALSE})
    \/ SyncProductRecord
    \/ FetchStock(NoFeed, {FALSE})
    \/ FetchPrices(PriceFeeds, {FALSE})
    \/ SyncPriceRecord
    \/ StartPush
    \/ CompleteSync
    \/ ReturnToCaller
    \/ EndInvocation

SpecPrices == InitPrices /\ [][NextPrices]_vars

ActivePrices(pr, v) ==
    SelectSeq(pr, LAMBDA r : r.variant = VariantKey(v) /\ r.is_active)

TierOf(r) == [price |-> r.price, min_quantity |-> r.min_quantity]

\* C7: after a price record has been applied to a variant, the active price
\* rows of the variant are exactly the tiers of that record, all of them
C7_ActiveTiersAreNewSet ==
    (pc = "prices" /\ lastRecord.phase = "prices") =>
        LET tiers == MapPriceData(lastRecord.raw, cur)
            found == FindVariantBySku(variants, products, lastRecord.raw.sku, cur)
        IN  \A v \in found :
              /\ Len(ActivePrices(prices, v)) = Len(tiers)
              /\ {TierOf(r) : r \in Range(ActivePrices(prices, v))}
                    = {TierOf(r) : r \in Range(tiers)}

-----------------------------------------------------------------------------
(* Pushes to WooCommerce: one or two Midocean products, pushed on every run *)

MidD == [master_code |-> <<"D">>, variants |-> <<[sku |-> <<"Z">>]>>]

PushProductFeeds == [s \in Suppliers |-> SeqsUpTo({MidA, MidD}, MaxFeed)]

InitPush == InitWith({{"MID"}}, {DistinctNames}) /\ ApartIdle

NextPush ==
    \/ SyncAllSuppliers(TRUE)
    \/ CallSyncSupplier("MID", TRUE)
    \/ BeginSyncSupplier(PushProductFeeds, {FALSE})
    \/ SyncProductRecord
    \/ FetchStock(NoFeed, {FALSE})
    \/ FetchPrices(NoFeed, {FALSE})
    \/ StartPush
    \/ PushBatch({{}})
    \/ FinishPush
    \/ CompleteSync
    \/ ReturnToCaller
    \/ EndInvocation

SpecPush == InitPush /\ [][NextPush]_vars

\* the products of the last batch that a request's payload belongs to
PayloadOwners(req) == {p \in Range(lastPush.batch) : p.sku = req.sku}

\* C9: no create request is sent for a product that is mapped to a remote
\* id, every remote product is a draft, and no local product has two remote
\* products
C9_MappedNeverCreatedAgain ==
    lastPush.kind # "none" =>
        /\ \A r \in Range(lastPush.requests) :
              r.op \in {"create", "batch_create"} =>
                  \A p \in PayloadOwners(r) : ~Truthy(p.woocommerce_id)
        /\ \A w \in wooProducts : w.status = "draft"
        /\ \A p \in products : Cardinality({w \in wooProducts : w.sku = p.sku}) <= 1

\* the SyncError rows recorded for a product
ErrorsFor(p) ==
    SelectSeq(syncErrors,
              LAMBDA e : e.object_id = p.sku \/ e.object_id = p.supplier_ref)

\* C10: a batch request that fails is followed by one request per product of
\* the batch; a product the shop refuses has exactly one SyncError, and every
\* other product of the batch is held by the shop
C10_BatchFallsBackToSingles ==
    lastPush.kind = "batch" =>
        /\ ~lastPush.success =>
              \A p \in Range(lastPush.batch) :
                 \E r \in Range(lastPush.requests) :
                    r.op \in {"create", "update"} /\ r.sku = p.sku
        /\ \A i \in DOMAIN lastPush.answers :
              IF lastPush.answers[i] = 0
              THEN Len(ErrorsFor(lastPush.batch[i])) = 1
              ELSE \E w \in wooProducts : w.sku = lastPush.batch[i].sku

\* C11: whenever the stored woocommerce_id of a product row changes, the new
\* value is the id of a product the shop holds under the SKU of that row
C11_IdOnlyAfterConfirmedPush ==
    [][\A p \in products : \A q \in products' :
          (q.id = p.id /\ q.woocommerce_id # p.woocommerce_id) =>
              \E w \in wooProducts' : w.id = q.woocommerce_id /\ w.sku = q.sku]_vars

-----------------------------------------------------------------------------
(* Fetches of one client over a feed that does not change *)

InitFetch ==
    /\ InitWith({{}}, {DistinctNames})
    /\ client \in ClientClasses
    /\ feedFile \in FeedsOf(client)
    /\ cacheEntry = NoEntry
    /\ lastFetch = NoCall
    /\ pager = NoPaging
    /\ workers = NoWorkers

NextFetch ==
    \/ GetProducts
    \/ ExpireEntry

SpecFetch == InitFetch /\ [][NextFetch]_vars

\* what the client of the last call returns for the feed of that call when
\* it parses it directly, under a limit
DirectFetch(limit) ==
    ClientGetProducts(client, lastFetch.feed, NoEntry, limit, TRUE, TRUE).out

\* C13: a get_products call with limit N >= 1 that returns, returns at
\* most N records
C13_AtMostLimit ==
    (lastFetch.called /\ lastFetch.limit >= 1 /\ ~lastFetch.raised) =>
        Len(lastFetch.records) <= lastFetch.limit

\* C14: over a feed that does not change and can be parsed, a call without
\* limit returns the complete list whatever calls came before, and every
\* record returned under a limit is a record of the complete list
C14_SamplingKeepsFeed ==
    (lastFetch.called /\ ~lastFetch.raised /\ ~DirectFetch(NoLimit).raised) =>
        IF lastFetch.limit = NoLimit
        THEN lastFetch.records = DirectFetch(NoLimit).records
        ELSE \A i \in DOMAIN lastFetch.records :
                lastFetch.records[i] \in Range(DirectFetch(NoLimit).records)

\* C16: a call during which the cache store is unavailable returns what the
\* direct parse of the feed returns
C16_CacheFailureDegrades ==
    (lastFetch.called /\ ~lastFetch.cacheUp /\ ~DirectFetch(lastFetch.limit).raised) =>
        /\ ~lastFetch.raised
        /\ lastFetch.records = DirectFetch(lastFetch.limit).records

\* C17: MKTOParser.get_products that parses the whole feed does not raise
\* and returns the records of exactly the well-formed product elements
C17_MalformedElementIsolated ==
    (client = "MKTOParser" /\ lastFetch.called /\ lastFetch.force_refresh
        /\ lastFetch.limit = NoLimit) =>
        /\ ~lastFetch.raised
        /\ lastFetch.records
              = StandardizeXmlProducts(SelectSeq(lastFetch.feed, LAMBDA e : e.wellFormed))

-----------------------------------------------------------------------------
(* Fetches of one client while the supplier goes on publishing feeds *)

NextRefresh ==
    \/ GetProducts
    \/ ExpireEntry
    \/ ChangeFeed

SpecRefresh == InitFetch /\ [][NextRefresh]_vars

\* C15: a call with force_refresh returns the direct parse of the feed and
\* leaves it in the cache as the entry; the next call without force_refresh
\* and without limit, made while that entry has not expired, returns it
C15_ForceRefreshOverwrites ==
    /\ []((lastFetch.called /\ lastFetch.force_refresh /\ ~lastFetch.raised) =>
            lastFetch.records = DirectFetch(lastFetch.limit).records)
    /\ [][(/\ lastFetch' # lastFetch /\ ~lastFetch'.raised
           /\ lastFetch'.force_refresh /\ lastFetch'.cacheUp) =>
            cacheEntry' = Stored(lastFetch'.records)]_vars
    /\ [][(/\ lastFetch.called /\ lastFetch.force_refresh /\ ~lastFetch.raised
           /\ lastFetch.cacheUp /\ cacheEntry.present
           /\ lastFetch' # lastFetch /\ ~lastFetch'.force_refresh
           /\ lastFetch'.cacheUp /\ lastFetch'.limit = NoLimit) =>
            /\ ~lastFetch'.raised
            /\ lastFetch'.records = lastFetch.records]_vars

-----------------------------------------------------------------------------
(* The page loops of the WooCommerce client against a shop that answers as *)
(* it likes; the loop that is running takes its next pass sooner or later  *)

InitPages == InitWith({{}}, {DistinctNames}) /\ ApartIdle

NextPages ==
    \/ CallPaginated("get_categories")
    \/ CallPaginated("clear_draft_products")
    \/ RequestPage

SpecPages == InitPages /\ [][NextPages]_vars /\ WF_vars(RequestPage)

\* C18: a page loop that is running ends, whatever the shop answers
C18_PaginationTerminates == pager.running ~> ~pager.running

-----------------------------------------------------------------------------
(* Two workers, each running _sync_products of one supplier over the same  *)
(* database.  A record is handled inside transaction.atomic(): what the    *)
(* worker writes is seen by the other worker's queries once the block      *)
(* commits, while a unique constraint counts the rows of an open block as  *)
(* well (the second writer waits for the commit and then fails).  The      *)
(* worker can be overtaken between a query and the write that relies on    *)
(* it: after the SKU query of the first variant, and after the lookup of   *)
(* the category by name.  The database is taken to run the blocks at READ  *)
(* COMMITTED.                                                              *)

ParallelSuppliers == {"MID", "MAK2"}

\* a Midocean and a Makito product of the category "Penne", and a Makito
\* product whose variant has the SKU of the Midocean variants
MidPenne ==
    [master_code |-> <<"P">>, category_level1 |-> "Penne",
     variants |-> <<[sku |-> <<"X">>]>>]

MakPenne ==
    [supplier_ref |-> <<"P">>, categories |-> <<"Penne">>,
     variants |-> <<[refct |-> <<"Y">>]>>]

MakX == [supplier_ref |-> <<"A">>, variants |-> <<[refct |-> <<"X">>]>>]

ParallelFeeds ==
    [s \in ParallelSuppliers |->
        IF s = "MID" THEN SeqsUpTo({MidA, MidPenne}, MaxFeed)
        ELSE SeqsUpTo({MakX, MakPenne}, MaxFeed)]

\* a worker that is given a feed: self.stats of its SyncService, its position
\* in the record and what it holds from the queries it has made
NewWorker(feed) ==
    [given |-> feed, feed |-> feed, pos |-> "next", product |-> NoRecord,
     before |-> NoRecord, sku |-> NoStr, found |-> "", pending |-> {},
     errors |-> <<>>, products_processed |-> 0, products_errors |-> 0]

\* the variant rows the open transactions of the other workers hold
HiddenFrom(w) == UNION {workers[o].pending : o \in DOMAIN workers \ {w}}

\* the rest of the loop of _sync_product_variants, whose SKU queries do not
\* see the rows in hidden
RECURSIVE SyncVariantsBeside(_, _, _, _)
SyncVariantsBeside(acc, product, vdata, hidden) ==
    IF vdata = <<>> THEN acc
    ELSE SyncVariantsBeside(
            WriteVariant(acc, product, Head(vdata),
                         ResolvedSku(acc.variants \ hidden, product, Head(vdata))),
            product, Tail(vdata), hidden)

\* _assign_product_category from the create of strategy 2 on, given what the
\* lookup by name has found
AssignAfterLookup(cats, mapped, s, sname, found) ==
    LET byPath == CreateOrGetCategory(cats, mapped.category_path, SupplierType(s), "")
        byList == IF mapped.categories[1] = "" THEN [categories |-> cats, category |-> ""]
                  ELSE IF found # "" THEN [categories |-> cats, category |-> found]
                  ELSE CreateSimpleCategory(cats, mapped.categories[1])
    IN  IF mapped.category_path # <<>> THEN byPath
        ELSE IF mapped.categories # <<>> /\ byList.category # "" THEN byList
        ELSE IF SimpleCreateFails(cats, mapped, found)
        THEN [categories |-> cats, category |-> ""]
        ELSE GetDefaultCategory(cats, s, sname)

\* the worker takes its next record: map_product_data, update_or_create of
\* the product and the SKU query of the first variant
WorkerCheck(w) ==
    /\ w \in DOMAIN workers
    /\ workers[w].pos = "next"
    /\ workers[w].feed # <<>>
    /\ LET raw == Head(workers[w].feed)
           mapped == MapProductData(raw, w)
           up == CreateOrUpdateProduct(products, mapped)
       IN  IF Rejected(raw)
              \/ ProductSkuTaken(products, w, mapped.supplier_ref, mapped.sku)
           THEN /\ syncErrors' = Append(syncErrors, ProductError(w, raw))
                /\ workers' = [workers EXCEPT ![w].feed = Tail(@),
                                              ![w].products_errors = @ + 1]
                /\ UNCHANGED products
           ELSE /\ products' = up.products
                /\ workers' = [workers EXCEPT
                        ![w].pos = "checked",
                        ![w].product = up.product,
                        ![w].before =
                            IF up.created THEN NoRecord
                            ELSE CHOOSE p \in ProductOf(products, w, mapped.supplier_ref) : TRUE,
                        ![w].sku = IF mapped.variants = <<>> THEN NoStr
                                   ELSE ResolvedSku(variants \ HiddenFrom(w),
                                                    up.product, mapped.variants[1])]
                /\ UNCHANGED syncErrors
    /\ UNCHANGED << cfgVars, client, feedFile, cacheEntry, lastFetch, pager, lastSync,
                    variants, categories, stocks, prices, syncLogs, wooVars, clock, pc,
                    caller, queue, cur, syncWoo, feedVars, fetched, stats, results,
                    attempted, lastRecord >>

\* the variants loop of the worker's record from the write of the first
\* variant on, over the variant rows vs
VariantsFromWrite(w, vs, hidden) ==
    LET mapped == MapProductData(Head(workers[w].feed), w)
        acc0 == [variants |-> vs, errors |-> <<>>, created |-> 0]
    IN  IF mapped.variants = <<>> THEN acc0
        ELSE SyncVariantsBeside(
                WriteVariant(acc0, workers[w].product, mapped.variants[1], workers[w].sku),
                workers[w].product, Tail(mapped.variants), hidden)

\* the worker goes on: the write of the first variant with the SKU it has
\* computed, the other variants, and the lookup of the category by name.  A
\* write whose SKU a row of an open transaction holds waits for its commit.
WorkerWrite(w) ==
    /\ w \in DOMAIN workers
    /\ workers[w].pos = "checked"
    /\ VariantsFromWrite(w, variants, HiddenFrom(w)).errors
          = VariantsFromWrite(w, variants \ HiddenFrom(w), {}).errors
    /\ LET mapped == MapProductData(Head(workers[w].feed), w)
           acc2 == VariantsFromWrite(w, variants, HiddenFrom(w))
       IN  /\ variants' = acc2.variants
           /\ workers' = [workers EXCEPT
                   ![w].pos = "written",
                   ![w].pending = acc2.variants \ variants,
                   ![w].errors = acc2.errors,
                   ![w].found = IF mapped.category_path = <<>> /\ mapped.categories # <<>>
                                THEN FindCategoryByName(categories, mapped.categories[1])
                                ELSE ""]
    /\ UNCHANGED << cfgVars, client, feedFile, cacheEntry, lastFetch, pager, lastSync,
                    products, categories, stocks, prices, syncLogs, syncErrors, wooVars,
                    clock, pc, caller, queue, cur, syncWoo, feedVars, fetched, stats,
                    results, attempted, lastRecord >>

\* the worker ends the record: the category is created or taken, the product
\* is saved and the transaction commits, or rolls back when the create of the
\* category has failed
WorkerFinish(w) ==
    /\ w \in DOMAIN workers
    /\ workers[w].pos = "written"
    /\ LET mapped == MapProductData(Head(workers[w].feed), w)
           product == workers[w].product
           a == AssignAfterLookup(categories, mapped, w, supplierName[w],
                                  workers[w].found)
           p1 == IF a.category # "" THEN [product EXCEPT !.category = a.category]
                 ELSE product
       IN  /\ IF SimpleCreateFails(categories, mapped, workers[w].found)
              THEN /\ products' = (products \ {product})
                                    \cup (IF workers[w].before = NoRecord THEN {}
                                          ELSE {workers[w].before})
                   /\ variants' = variants \ workers[w].pending
                   /\ UNCHANGED << categories, syncErrors >>
              ELSE /\ categories' = a.categories
                   /\ products' = (products \ {product})
                                    \cup {AssignMainPrice(p1, mapped.prices)}
                   /\ syncErrors' = syncErrors \o workers[w].errors
                   /\ UNCHANGED variants
           /\ workers' = [workers EXCEPT
                   ![w].feed = Tail(@), ![w].pos = "next", ![w].product = NoRecord,
                   ![w].before = NoRecord, ![w].sku = NoStr, ![w].found = "",
                   ![w].pending = {}, ![w].errors = <<>>,
                   ![w].products_processed = @ + 1]
    /\ UNCHANGED << cfgVars, client, feedFile, cacheEntry, lastFetch, pager, lastSync,
                    stocks, prices, syncLogs, wooVars, clock, pc,
                    caller, queue, cur, syncWoo, feedVars, fetched, stats, results,
                    attempted, lastRecord >>

InitParallel ==
    /\ InitWith({ParallelSuppliers}, {DistinctNames})
    /\ client = "none"
    /\ feedFile = <<>>
    /\ cacheEntry = NoEntry
    /\ lastFetch = NoCall
    /\ pager = NoPaging
    /\ workers \in {[s \in ParallelSuppliers |-> NewWorker(f[s])] :
                        f \in [ParallelSuppliers ->
                                 SeqsUpTo({MidA, MidPenne, MakX, MakPenne}, MaxFeed)]}
    /\ \A s \in ParallelSuppliers : workers[s].given \in ParallelFeeds[s]

NextParallel ==
    \E w \in ParallelSuppliers : WorkerCheck(w) \/ WorkerWrite(w) \/ WorkerFinish(w)

SpecParallel == InitParallel /\ [][NextParallel]_vars

\* one pass of the loop of _sync_products run alone on the tables
\* db = [products, variants, categories, errors]
SyncRecordAlone(db, s, sname, raw) ==
    LET mapped == MapProductData(raw, s)
        up == CreateOrUpdateProduct(db.products, mapped)
        vs == SyncProductVariants(
                 [variants |-> db.variants, errors |-> <<>>, created |-> 0],
                 up.product, mapped.variants)
        en == ProcessProductEnhancements(db.categories, up.product, mapped, s, sname)
    IN  IF Rejected(raw)
           \/ ProductSkuTaken(db.products, s, mapped.supplier_ref, mapped.sku)
        THEN [db EXCEPT !.errors = Append(@, ProductError(s, raw))]
        ELSE IF MarkedForRollback(db.categories, mapped) THEN db
        ELSE [products |-> (up.products \ {up.product}) \cup {en.product},
              variants |-> vs.variants,
              categories |-> en.categories,
              errors |-> db.errors \o vs.errors]

\* the loop of _sync_products run alone over a feed
RECURSIVE SyncFeedAlone(_, _, _, _)
SyncFeedAlone(db, s, sname, feed) ==
    IF feed = <<>> THEN db
    ELSE SyncFeedAlone(SyncRecordAlone(db, s, sname, Head(feed)), s, sname, Tail(feed))

EmptyTables == [products |-> {}, variants |-> {}, categories |-> {}, errors |-> <<>>]

\* the run of the first supplier, then the run of the second
OneAfterTheOther(first, second) ==
    SyncFeedAlone(
        SyncFeedAlone(EmptyTables, first, supplierName[first], workers[first].given),
        second, supplierName[second], workers[second].given)

\* what the tables hold, told by natural keys: products with their SKU and
\* category, variants with their SKU
Persisted(ps, vs) ==
    [products |-> {[supplier |-> p.supplier, supplier_ref |-> p.supplier_ref,
                    sku |-> p.sku, category |-> p.category] : p \in ps},
     variants |-> {[supplier |-> (CHOOSE p \in ps : p.id = v.product).supplier,
                    product_ref |-> (CHOOSE p \in ps : p.id = v.product).supplier_ref,
                    supplier_variant_ref |-> v.supplier_variant_ref,
                    sku |-> v.sku] : v \in vs}]

WorkersDone ==
    /\ DOMAIN workers = ParallelSuppliers
    /\ \A w \in ParallelSuppliers : workers[w].feed = <<>> /\ workers[w].pos = "next"

\* C20: when both workers have ended, the products, variants and category
\* assignments are those one of the two sequential executions leaves, and
\* every error recorded is one that execution records as well
C20_ParallelAsSequential ==
    WorkersDone =>
        \E first \in ParallelSuppliers : \E second \in ParallelSuppliers \ {first} :
            LET seq == OneAfterTheOther(first, second) IN
            /\ Persisted(products, variants) = Persisted(seq.products, seq.variants)
            /\ Range(syncErrors) \subseteq Range(seq.errors)
            /\ Len(syncErrors) <= Len(seq.errors)

-----------------------------------------------------------------------------
(* Runs of a Midocean and a BIC supplier over feeds whose records differ   *)
(* in their categories: none, a path, a path whose name takes the slug of  *)
(* the default category, names that differ in letter case only             *)

MidPlain == [master_code |-> <<"N">>]
MidClash == [master_code |-> <<"K">>, category_level1 |-> "Prodotti-Midocean"]
MidUpper == [master_code |-> <<"U">>, category_level1 |-> "PENNE"]

BicLower ==
    [supplier_ref |-> <<"B">>, sku |-> <<"BIC", Sep, "B">>,
     categories |-> <<"Bic", "Prodotti Promozionali">>]

CategoryFeeds ==
    [s \in Suppliers |->
        IF s = "MID" THEN SeqsUpTo({MidPlain, MidClash, MidPenne, MidUpper}, MaxFeed)
        ELSE SeqsUpTo({BicA, BicLower}, MaxFeed)]

InitCategories == InitWith({{"MID", "BIC"}}, {DistinctNames}) /\ ApartIdle

NextCategories ==
    \/ SyncAllSuppliers(FALSE)
    \/ \E s \in {"MID", "BIC"} : CallSyncSupplier(s, FALSE)
    \/ BeginSyncSupplier(CategoryFeeds, {FALSE})
    \/ SyncProductRecord
    \/ FetchStock(NoFeed, {FALSE})
    \/ FetchPrices(NoFeed, {FALSE})
    \/ StartPush
    \/ CompleteSync
    \/ ReturnToCaller
    \/ EndInvocation

SpecCategories == InitCategories /\ [][NextCategories]_vars

\* the product row of the record the step was given, after the step
WrittenProduct ==
    ProductOf(products', cur, MapProductData(Head(rawProducts), cur).supplier_ref)

\* the last name of the record's category path, as create_or_get_category maps it
PathLeaf(mapped) ==
    MapCategoryName(mapped.category_path[Len(mapped.category_path)], SupplierType(cur))

\* C21: a record that is processed leaves its product with a category: the
\* leaf of its category path when it has one, and the supplier's default
\* category when it has neither a path nor a category list
C21_CategoryAlwaysAssigned ==
    [][(ProductStep /\ ~RecordFailed) =>
          LET mapped == MapProductData(Head(rawProducts), cur) IN
          \E p \in WrittenProduct :
             /\ p.category # ""
             /\ mapped.category_path # <<>> => p.category = Slugify(PathLeaf(mapped))
             /\ (mapped.category_path = <<>> /\ mapped.categories = <<>>)
                   => \E c \in categories' :
                         /\ c.slug = p.category
                         /\ c.name = DefaultCategoryName(cur, supplierName[cur])]_vars

\* C22: no two categories have names that differ in letter case only, and a
\* record whose category name matches an existing category up to case gets
\* that category
C22_CaseInsensitiveReuse ==
    /\ [](\A c, d \in categories : Lower(c.name) = Lower(d.name) => c = d)
    /\ [][(ProductStep /\ ~RecordFailed) =>
             LET mapped == MapProductData(Head(rawProducts), cur)
                 wanted == IF mapped.category_path # <<>> THEN PathLeaf(mapped)
                           ELSE mapped.categories[1]
             IN  (mapped.category_path # <<>> \/ mapped.categories # <<>>)
                 => \A c \in categories :
                       Lower(c.name) = Lower(wanted)
                          => \E p \in WrittenProduct : p.category = c.slug]_vars

-----------------------------------------------------------------------------
(* Runs of the BIC supplier over rows whose price columns differ.  A cell  *)
(* is the number _safe_int or _safe_float reads from it, 0 for a cell that *)
(* is empty, unreadable or "0" (all of them false for `if price and        *)
(* min_qty`).                                                              *)

PriceColumns ==
    {[minQty |-> 1, maxQty |-> 99, price |-> 3],
     [minQty |-> 100, maxQty |-> 0, price |-> 2],
     [minQty |-> 0, maxQty |-> 0, price |-> 5],
     [minQty |-> 50, maxQty |-> 0, price |-> 0]}

\* BICParser._extract_prices over the columns price.1, price.2, ... of a row
BicExtractPrices(cols, currency) ==
    LET kept == SelectSeq(cols, LAMBDA c : c.price # 0 /\ c.minQty # 0) IN
    [i \in DOMAIN kept |->
        [min_quantity |-> kept[i].minQty,
         max_quantity |-> IF kept[i].maxQty # 0 THEN kept[i].maxQty ELSE UnboundedQty,
         price |-> kept[i].price,
         currency |-> currency]]

\* the product BICParser gives for a row with these price columns
BicPriced(cols, currency) ==
    [supplier_ref |-> <<"T">>, sku |-> <<"BIC", Sep, "T">>,
     categories |-> <<"BIC", "Prodotti Promozionali">>,
     prices |-> BicExtractPrices(cols, currency)]

BasePriceFeeds ==
    [s \in Suppliers |->
        {<<BicPriced(cols, currency)>> :
            cols \in SeqsUpTo(PriceColumns, MaxTiers), currency \in {"EUR", "USD"}}]

InitBasePrice == InitWith({{"BIC"}}, {DistinctNames}) /\ ApartIdle

NextBasePrice ==
    \/ SyncAllSuppliers(FALSE)
    \/ CallSyncSupplier("BIC", FALSE)
    \/ BeginSyncSupplier(BasePriceFeeds, {FALSE})
    \/ SyncProductRecord
    \/ FetchStock(NoFeed, {FALSE})
    \/ FetchPrices(NoFeed, {FALSE})
    \/ StartPush
    \/ CompleteSync
    \/ ReturnToCaller
    \/ EndInvocation

SpecBasePrice == InitBasePrice /\ [][NextBasePrice]_vars

\* C23: a record with price tiers leaves its product with the price and the
\* currency of a tier of lowest min_quantity
C23_BasePriceIsLowestTier ==
    [][(ProductStep /\ ~RecordFailed) =>
          LET tiers == MapProductData(Head(rawProducts), cur).prices IN
          tiers # <<>> =>
             \E p \in WrittenProduct : \E i \in DOMAIN tiers :
                /\ \A j \in DOMAIN tiers : tiers[i].min_quantity <= tiers[j].min_quantity
                /\ p.base_price = tiers[i].price
                /\ p.currency = tiers[i].currency]_vars

-----------------------------------------------------------------------------
(* Variant codes of the XML catalogues: the element of the feed, what the  *)
(* parser of the supplier's client makes of it, the mapping, and the       *)
(* variant rows written by _sync_product_variants.                         *)

\* str.strip() on an atom sequence
RECURSIVE Strip(_)
Strip(s) ==
    IF s # <<>> /\ Head(s) = " " THEN Strip(Tail(s))
    ELSE IF s # <<>> /\ s[Len(s)] = " " THEN Strip(SubSeq(s, 1, Len(s) - 1))
    ELSE s

\* str.replace('/', '').replace(' ', '') on an atom sequence
StripSlashAndSpace(s) == SelectSeq(s, LAMBDA a : a # "/" /\ a # " ")

\* the SKU MKTOParser builds for a variant without refct: '_'.join(sku_parts)
MktoGeneratedSku(ref, color, size) ==
    <<"MAK", Sep>> \o ref
    \o (IF color # NoStr THEN <<Sep>> \o StripSlashAndSpace(color) ELSE <<>>)
    \o (IF size # NoStr /\ size # <<"S", "/", "T">>
        THEN <<Sep>> \o StripSlashAndSpace(size) ELSE <<>>)

\* MKTOParser._standardize_mkto_product, the body of the variants loop
MktoStandardizeVariant(ref, v) ==
    LET color == Get(v, "colour", NoStr)
        size  == Get(v, "size", <<"ST">>)
        refct == Get(v, "refct", NoStr)
    IN  [supplier_variant_ref |->
            IF refct # NoStr THEN refct
            ELSE ref \o <<Sep>> \o color \o <<Sep>> \o size,
         sku |-> IF Strip(refct) # NoStr THEN Strip(refct)
                 ELSE MktoGeneratedSku(ref, color, size),
         color |-> color,
         size |-> size]

\* MakitoParser._extract_variants, the body of its loop
MakitoExtractVariant(v) ==
    [refct |-> Get(v, "refct", NoStr), colour |-> Get(v, "colour", NoStr),
     size |-> Get(v, "size", NoStr)]

\* the record the client of supplier s returns for the XML element elem
ParsedXmlProduct(s, elem) ==
    LET ref == Get(elem, "ref", NoStr)
        vs  == Get(elem, "variants", <<>>)
    IN  [supplier_ref |-> ref,
         variants |->
            [i \in DOMAIN vs |->
                IF ClientClass(s) = "MKTOParser"
                THEN MktoStandardizeVariant(ref, vs[i])
                ELSE MakitoExtractVariant(vs[i])]]

\* <product> elements: pen A with the variant code AR, cap B whose variant
\* has no code, bag C with a code per colour
XmlElements ==
    {[ref |-> <<"A">>,
      variants |-> <<[refct |-> <<"A", "R">>, colour |-> <<"RED">>, size |-> <<"ST">>]>>],
     [ref |-> <<"B">>,
      variants |-> <<[colour |-> <<"BLU">>, size |-> <<"L">>]>>],
     [ref |-> <<"C">>,
      variants |-> <<[refct |-> <<"C", "R">>, colour |-> <<"RED">>],
                     [refct |-> <<"C", "B">>, colour |-> <<"BLU">>]>>]}

XmlSuppliers == {"MKTO", "MAK2"}

VariantCodeFeeds ==
    [s \in Suppliers |->
        SeqsUpTo({ParsedXmlProduct(s, e) : e \in XmlElements}, MaxFeed)]

InitVariantCodes == InitWith({XmlSuppliers}, {DistinctNames}) /\ ApartIdle

NextVariantCodes ==
    \/ SyncAllSuppliers(FALSE)
    \/ \E s \in XmlSuppliers : CallSyncSupplier(s, FALSE)
    \/ BeginSyncSupplier(VariantCodeFeeds, {FALSE})
    \/ SyncProductRecord
    \/ FetchStock(NoFeed, {FALSE})
    \/ FetchPrices(NoFeed, {FALSE})
    \/ StartPush
    \/ CompleteSync
    \/ ReturnToCaller
    \/ EndInvocation

SpecVariantCodes == InitVariantCodes /\ [][NextVariantCodes]_vars

\* C24: a variant that the XML element gives a code (refct) is persisted
\* under that code as its SKU, unless a variant of another product holds the
\* code already; a SKU built from prefix, reference, colour and size appears
\* only for a variant without code
C24_ExplicitCodeVerbatim ==
    [][(ProductStep /\ ~RecordFailed) =>
          \A e \in XmlElements :
             ParsedXmlProduct(cur, e) = Head(rawProducts) =>
                \A p \in WrittenProduct : \A i \in DOMAIN e.variants :
                   LET code == Get(e.variants[i], "refct", NoStr) IN
                   (code # NoStr /\ ~SkuOfOtherProduct(variants, code, p))
                      => \E x \in variants' : x.product = p.id /\ x.sku = code]_vars

-----------------------------------------------------------------------------
(* The maximum quantity of the normalised price tiers *)

\* a pass of the outer loop of _sync_prices
PriceStep == pc = "prices" /\ rawPrices # <<>> /\ rawPrices' = Tail(rawPrices)

\* C25: every tier the price mapping of a supplier produces has a maximum
\* quantity that is neither None nor zero (the unbounded sentinel when the
\* source gives none) and has a price, and so has every price row written
\* from it
C25_MaxQuantityNeverNull ==
    [][PriceStep =>
          /\ \A tier \in Range(MapPriceData(Head(rawPrices), cur)) :
                /\ tier.max_quantity # NoId
                /\ tier.max_quantity # 0
                /\ tier.price # 0
          /\ \A i \in DOMAIN prices' :
                i > Len(prices) => prices'[i].max_quantity # NoId]_vars

-----------------------------------------------------------------------------
(* The counters of _sync_products against the product rows *)

\* the records the loop of _sync_products has counted
CountedRecords(st) == st.products_created + st.products_updated + st.products_errors

ProductIds(ps) == {p.id : p \in ps}

\* C26: every pass of the loop of _sync_products counts its record in
\* exactly one of products_created, products_updated and products_errors,
\* and products_created grows by the number of product rows the pass has
\* added; summed over the loop, the three counters add up to the number of
\* fetched records and products_created is the number of new rows
C26_CountersMatchRows ==
    [][ProductStep =>
          /\ CountedRecords(stats') = CountedRecords(stats) + 1
          /\ stats'.products_created >= stats.products_created
          /\ stats'.products_updated >= stats.products_updated
          /\ stats'.products_errors >= stats.products_errors
          /\ stats'.products_created - stats.products_created
                = Cardinality(ProductIds(products') \ ProductIds(products))]_vars

-----------------------------------------------------------------------------
(* Two active suppliers served by the same client class.  Supplier.code is *)
(* unique, so MKTOParser serves the one supplier of code MKTO; every other *)
(* MAKITO supplier gets a MakitoParser and every MIDOCEAN supplier a       *)
(* MidoceanClient, each built on the supplier's own xml_path or            *)
(* api_base_url.  Here feedFile holds one feed per location, and the cache *)
(* entry is the one under the products key of the class.                   *)

FeedLocations == {"first", "second"}

SharedClasses == {"MakitoParser", "MidoceanClient"}

\* get_products on the client of the supplier whose feed is at loc
GetProductsAt(loc) ==
    /\ client \in SharedClasses
    /\ \E force, cacheUp \in BOOLEAN :
          LET r == ClientGetProducts(client, feedFile[loc], cacheEntry, NoLimit,
                                     force, cacheUp)
          IN  /\ cacheEntry' = r.entry
              /\ lastFetch' = [called |-> TRUE, location |-> loc, limit |-> NoLimit,
                               force_refresh |-> force, cacheUp |-> cacheUp,
                               feed |-> feedFile[loc], entry |-> cacheEntry,
                               raised |-> r.out.raised, records |-> r.out.records]
    /\ UNCHANGED << syncVars, client, feedFile, pager >>

InitSharedCache ==
    /\ InitWith({{}}, {DistinctNames})
    /\ client \in SharedClasses
    /\ feedFile \in [FeedLocations -> FeedsOf(client)]
    /\ cacheEntry = NoEntry
    /\ lastFetch = NoCall
    /\ pager = NoPaging
    /\ workers = NoWorkers

NextSharedCache ==
    \/ \E loc \in FeedLocations : GetProductsAt(loc)
    \/ ExpireEntry

SpecSharedCache == InitSharedCache /\ [][NextSharedCache]_vars

\* C27: the records a get_products call returns for a supplier are the
\* records parsed from the feed at that supplier's own location, whether the
\* call was served from the cache or parsed the feed
C27_CacheNeverCrossesSuppliers ==
    (lastFetch.called /\ ~lastFetch.raised) =>
        LET own == ClientGetProducts(client, feedFile[lastFetch.location], NoEntry,
                                     NoLimit, TRUE, TRUE).out
        IN  ~own.raised /\ lastFetch.records = own.records

-----------------------------------------------------------------------------
(* The push when _prepare_woocommerce_product raises for some products *)

\* the sets of product rows whose payload preparation raises
PrepFailures == SUBSET (1..MaxFeed)

NextPushPrepared ==
    \/ SyncAllSuppliers(TRUE)
    \/ CallSyncSupplier("MID", TRUE)
    \/ BeginSyncSupplier(PushProductFeeds, {FALSE})
    \/ SyncProductRecord
    \/ FetchStock(NoFeed, {FALSE})
    \/ FetchPrices(NoFeed, {FALSE})
    \/ StartPush
    \/ PushBatch(PrepFailures)
    \/ FinishPush
    \/ CompleteSync
    \/ ReturnToCaller
    \/ EndInvocation

SpecPushPrepared == InitPush /\ [][NextPushPrepared]_vars

\* C28: a product that holds a remote identifier holds the identifier of the
\* remote product of its own SKU, the one created or updated from its own
\* payload
C28_RemoteIdOfOwnPayload ==
    \A p \in products :
        Truthy(p.woocommerce_id) =>
            \E w \in wooProducts : w.id = p.woocommerce_id /\ w.sku = p.sku

-----------------------------------------------------------------------------
(* The status of a run some of whose records failed *)

\* C29: a SyncLog row with status SUCCESS belongs to a run without a failed
\* product record: a run that counted a failed record (and wrote its
\* SyncError) is completed as PARTIAL or ERROR
C29_SuccessMeansNoFailedRecord ==
    \A i \in DOMAIN syncLogs :
        syncLogs[i].status = "SUCCESS" => syncLogs[i].products_errors = 0

-----------------------------------------------------------------------------
(* WooCommerceClient.clear_draft_products against the drafts of the shop.  *)
(* Every request is answered with status 200; the shop lists the drafts it *)
(* holds at the time of the request, PerPage to a page.                    *)

PerPage == 100         \* "per_page": 100 of clear_draft_products

\* the shop after earlier pushes have left n products in status draft
RemoteDrafts(n) == {[id |-> k, sku |-> IdStr(k), status |-> "draft"] : k \in 1..n}

Drafts(remote) == {w \in remote : w.status = "draft"}

\* GET products?status=draft&per_page=100&page=<page>
DraftPage(remote, page) ==
    {w \in Drafts(remote) :
        LET rank == Cardinality({x \in Drafts(remote) : x.id <= w.id})
        IN  (page - 1) * PerPage < rank /\ rank <= page * PerPage}

\* earlier pushes have filled the shop
DraftsPushed ==
    /\ ~pager.running
    /\ pager.op = "none"
    /\ wooProducts = {}
    /\ \E n \in 1..MaxDrafts : wooProducts' = RemoteDrafts(n)
    /\ UNCHANGED << cfgVars, apartVars, lastSync, dbVars, syncLogs, syncErrors, pushState,
                    lastPush, clock, pc, caller, queue, cur, syncWoo, feedVars, fetched,
                    stats, results, attempted, lastRecord >>

\* clear_draft_products is called: deleted_count = 0, page = 1
CallClearDrafts ==
    /\ ~pager.running
    /\ pager.op = "none"
    /\ pager' = [op |-> "clear_draft_products", page |-> 1, counted |-> 0,
                 running |-> TRUE, drafts |-> Cardinality(Drafts(wooProducts))]
    /\ UNCHANGED << syncVars, client, feedFile, cacheEntry, lastFetch, workers >>

\* one pass of `while True`: the page is requested; an empty page ends the
\* loop, any other page has each of its products deleted, then page += 1
ClearDraftsPage ==
    /\ pager.running
    /\ pager.op = "clear_draft_products"
    /\ LET listed == DraftPage(wooProducts, pager.page) IN
       IF listed = {}
       THEN /\ pager' = [pager EXCEPT !.running = FALSE]
            /\ UNCHANGED wooProducts
       ELSE /\ wooProducts' = wooProducts \ listed
            /\ pager' = [pager EXCEPT !.page = NextPage(@),
                                      !.counted = @ + Cardinality(listed)]
    /\ UNCHANGED << cfgVars, client, feedFile, cacheEntry, lastFetch, workers, lastSync,
                    dbVars, syncLogs, syncErrors, pushState, lastPush, clock, pc, caller,
                    queue, cur, syncWoo, feedVars, fetched, stats, results, attempted,
                    lastRecord >>

InitDrafts == InitWith({{}}, {DistinctNames}) /\ ApartIdle

NextDrafts ==
    \/ DraftsPushed
    \/ CallClearDrafts
    \/ ClearDraftsPage

SpecDrafts == InitDrafts /\ [][NextDrafts]_vars

\* C30: when clear_draft_products has returned, the shop holds no draft and
\* the count returned is the number of drafts the shop held at the call
C30_AllDraftsCleared ==
    (pager.op = "clear_draft_products" /\ ~pager.running) =>
        /\ Drafts(wooProducts) = {}
        /\ pager.counted = pager.drafts

=============================================================================
